---------------------------- MODULE Spec2Model ----------------------------
(***************************************************************************)
(* A model of inco-go, a Design-by-Contract preprocessor for Go.           *)
(*                                                                         *)
(* The repository holds two generations of the directive-to-shadow         *)
(* transformer:                                                            *)
(*   - the text engine  (src/internal/inco/engine.go, directive.go), which *)
(*     rewrites the source line by line;                                   *)
(*   - the AST engine   (src/internal/inco/typecheck.go), which injects    *)
(*     statements into the syntax tree, prints it and re-synchronises the  *)
(*     line numbers afterwards.                                            *)
(*                                                                         *)
(* Text is modelled as text: a file is the sequence of its lines           *)
(* (strings.Split(content, "\n")), a line is a string, and the string      *)
(* functions of the source are translated on the characters.               *)
(*                                                                         *)
(* An intermediate value that the source keeps in a local variable is      *)
(* either a parameter of a continuation operator or bound by               *)
(*     The({ e(x) : x \in {value} }),                                      *)
(* which is  LET x == value IN e(x)  with the value computed once.         *)
(***************************************************************************)
EXTENDS Integers, Sequences, FiniteSets, TLC

The(S) == CHOOSE x \in S : TRUE

(***************************************************************************)
(* Go's strings package, on TLA+ strings.  Go indexes from 0; here every   *)
(* index is 1-based and 0 stands for Go's -1 ("not found").                *)
(***************************************************************************)
Ch(s, i) == SubSeq(s, i, i)

From(s, i) == SubSeq(s, i, Len(s))

HasPrefix(s, p) == Len(s) >= Len(p) /\ SubSeq(s, 1, Len(p)) = p

HasSuffix(s, p) == Len(s) >= Len(p) /\ SubSeq(s, Len(s) - Len(p) + 1, Len(s)) = p

\* Whether sub occurs in s at position i.
StartsAt(s, i, sub) == i + Len(sub) - 1 <= Len(s) /\ SubSeq(s, i, i + Len(sub) - 1) = sub

TrimSuffix(s, p) == IF HasSuffix(s, p) THEN SubSeq(s, 1, Len(s) - Len(p)) ELSE s

Space == {" ", "\t", "\n", "\r"}

Blank == {" ", "\t"}

\* The least position from i on whose character is in set, Len(s) + 1 when
\* there is none: where a byte loop that ignores every other character
\* acts next.
NextIn(s, i, set) ==
    CHOOSE j \in i..Len(s) + 1 :
        /\ j = Len(s) + 1 \/ SubSeq(s, j, j) \in set
        /\ \A k \in i..j - 1 : SubSeq(s, k, k) \notin set

\* The least position from i on whose character is not in set.
NextNotIn(s, i, set) ==
    CHOOSE j \in i..Len(s) + 1 :
        /\ j = Len(s) + 1 \/ SubSeq(s, j, j) \notin set
        /\ \A k \in i..j - 1 : SubSeq(s, k, k) \in set

\* The greatest position up to i whose character is not in set, 0 when
\* there is none.
PrevNotIn(s, i, set) ==
    CHOOSE j \in 0..i :
        /\ j = 0 \/ SubSeq(s, j, j) \notin set
        /\ \A k \in j + 1..i : SubSeq(s, k, k) \in set

TrimLeftSet(s, cut) == SubSeq(s, NextNotIn(s, 1, cut), Len(s))

TrimRightSet(s, cut) == SubSeq(s, 1, PrevNotIn(s, Len(s), cut))

TrimSpace(s) == TrimRightSet(TrimLeftSet(s, Space), Space)

\* strings.Index from position i on: the first position where sub starts,
\* 0 when absent.
IndexFrom(s, sub, i) ==
    CHOOSE j \in {0} \cup (i..Len(s) - Len(sub) + 1) :
        /\ j # 0 => StartsAt(s, j, sub)
        /\ \A k \in i..(IF j = 0 THEN Len(s) - Len(sub) + 1 ELSE j - 1) : ~StartsAt(s, k, sub)

Index(s, sub) == IndexFrom(s, sub, 1)

\* strings.LastIndex: the last position where sub starts, 0 when absent.
LastIndex(s, sub) ==
    CHOOSE j \in {0} \cup (1..Len(s) - Len(sub) + 1) :
        /\ j # 0 => StartsAt(s, j, sub)
        /\ \A k \in j + 1..Len(s) - Len(sub) + 1 : ~StartsAt(s, k, sub)

Letters ==
    {"a", "b", "c", "d", "e", "f", "g", "h", "i", "j", "k", "l", "m",
     "n", "o", "p", "q", "r", "s", "t", "u", "v", "w", "x", "y", "z",
     "A", "B", "C", "D", "E", "F", "G", "H", "I", "J", "K", "L", "M",
     "N", "O", "P", "Q", "R", "S", "T", "U", "V", "W", "X", "Y", "Z"}

Digits == {"0", "1", "2", "3", "4", "5", "6", "7", "8", "9"}

\* isIdentChar reports whether b can appear in a Go identifier.
isIdentChar(b) == b \in Letters \/ b \in Digits \/ b = "_"

\* The characters of the model's texts in ASCII order; Ord is the byte value's rank.
Alphabet ==
    "\t\n !\"#$%&'()*+,-./0123456789:;<=>?@ABCDEFGHIJKLMNOPQRSTUVWXYZ[\\]^_abcdefghijklmnopqrstuvwxyz{|}~"

OrdMap ==
    [c \in {SubSeq(Alphabet, i, i) : i \in 1..Len(Alphabet)} |->
        CHOOSE i \in 1..Len(Alphabet) : SubSeq(Alphabet, i, i) = c]

Ord(c) == OrdMap[c]

\* The first position where a and b differ (one beyond the shorter when one
\* is a prefix of the other).
firstDiff(a, b, n) ==
    CHOOSE j \in 1..n + 1 :
        /\ j = n + 1 \/ SubSeq(a, j, j) # SubSeq(b, j, j)
        /\ \A k \in 1..j - 1 : SubSeq(a, k, k) = SubSeq(b, k, k)

lessAt(a, b, d) ==
    IF d > Len(a) \/ d > Len(b) THEN Len(a) < Len(b)
    ELSE Ord(SubSeq(a, d, d)) < Ord(SubSeq(b, d, d))

\* Go's string comparison (bytewise), as sort.Strings uses it.
StrLess(a, b) == lessAt(a, b, firstDiff(a, b, IF Len(a) < Len(b) THEN Len(a) ELSE Len(b)))

\* sort.Strings on the elements of a set: the ascending sequence.
SortStrings(S) ==
    CHOOSE q \in [1..Cardinality(S) -> S] :
        \A a, b \in 1..Cardinality(S) : a < b => StrLess(q[a], q[b])

Range(f) == {f[x] : x \in DOMAIN f}

\* The concatenation of the elements lo..hi of a sequence of sequences (or
\* of strings, with empty the empty string).
RECURSIVE ConcatRange(_, _, _, _)
ConcatRange(parts, lo, hi, empty) ==
    IF lo > hi THEN empty
    ELSE IF lo = hi THEN parts[lo]
    ELSE ConcatRange(parts, lo, (lo + hi) \div 2, empty)
         \o ConcatRange(parts, ((lo + hi) \div 2) + 1, hi, empty)

Flatten(seqs) == ConcatRange(seqs, 1, Len(seqs), <<>>)

ConcatStrings(strs) == ConcatRange(strs, 1, Len(strs), "")

\* The sum of the elements lo..hi of a sequence of numbers.
RECURSIVE SumRange(_, _, _)
SumRange(nums, lo, hi) ==
    IF lo > hi THEN 0
    ELSE IF lo = hi THEN nums[lo]
    ELSE SumRange(nums, lo, (lo + hi) \div 2) + SumRange(nums, ((lo + hi) \div 2) + 1, hi)

(***************************************************************************)
(* directive.go: the directive lexer of the text engine.                   *)
(***************************************************************************)
KindRequire == "require"

KindMust == "must"

KindEnsure == "ensure"

\* The nil *Directive.
NilDirective == [Kind |-> "nil", Action |-> "", ActionArgs |-> <<>>, Expr |-> ""]

\* stripComment on the trimmed comment: the text between the delimiters.
commentBody(s) ==
    IF HasPrefix(s, "//") THEN From(s, 3)
    ELSE IF HasPrefix(s, "/*") /\ HasSuffix(s, "*/") /\ Len(s) >= 4
         THEN SubSeq(s, 3, Len(s) - 2)
    ELSE ""

\* stripComment removes Go comment delimiters and returns trimmed content.
stripComment(c) == TrimSpace(commentBody(TrimSpace(c)))

\* The characters the loop of splitTopLevel acts on, inside and outside a
\* string literal.
splitStops(inStr) ==
    IF inStr THEN {"\"", "\\"} ELSE {"\"", "(", "[", "{", ")", "]", "}", ","}

\* One iteration of the loop of splitTopLevel at position st.i: the state
\* after it, with i the position the loop looks at next.
splitStep(s, st) ==
    IF Ch(s, st.i) = "\"" /\ ~st.inStr
       THEN [st EXCEPT !.i = st.i + 1, !.inStr = TRUE]
    ELSE IF Ch(s, st.i) = "\"" /\ st.inStr /\ (st.i = 1 \/ Ch(s, st.i - 1) # "\\")
       THEN [st EXCEPT !.i = st.i + 1, !.inStr = FALSE]
    ELSE IF st.inStr
       THEN [st EXCEPT !.i = IF Ch(s, st.i) = "\\" THEN st.i + 2 ELSE st.i + 1]
    ELSE IF Ch(s, st.i) \in {"(", "[", "{"}
       THEN [st EXCEPT !.i = st.i + 1, !.depth = st.depth + 1]
    ELSE IF Ch(s, st.i) \in {")", "]", "}"}
       THEN [st EXCEPT !.i = st.i + 1, !.depth = st.depth - 1]
    ELSE IF Ch(s, st.i) = "," /\ st.depth = 0
       THEN [st EXCEPT !.i = st.i + 1, !.start = st.i + 1,
                       !.result = Append(st.result, TrimSpace(SubSeq(s, st.start, st.i - 1)))]
    ELSE [st EXCEPT !.i = st.i + 1]

\* The state with i moved on to the next character the loop acts on.
splitSkip(s, st) == [st EXCEPT !.i = NextIn(s, st.i, splitStops(st.inStr))]

splitLast(result, last) == IF last # "" THEN Append(result, last) ELSE result

\* The loop of splitTopLevel and the statement after it.
RECURSIVE splitLoop(_, _)
splitLoop(s, st) ==
    IF st.i > Len(s) THEN splitLast(st.result, TrimSpace(From(s, st.start)))
    ELSE splitLoop(s, splitSkip(s, splitStep(s, st)))

\* splitTopLevel splits s by top-level commas, respecting nested parens,
\* brackets, braces and double-quoted strings.
splitTopLevel(s) ==
    splitLoop(s, splitSkip(s, [i |-> 1, depth |-> 0, inStr |-> FALSE, start |-> 1,
                               result |-> <<>>]))

\* The inner loop of parseActionArgs that skips a string literal: the index
\* of the closing quote (or beyond the end).
RECURSIVE skipString(_, _)
skipString(s, i) ==
    The({IF j <= Len(s) /\ Ch(s, j) = "\\" THEN skipString(s, j + 2) ELSE j :
         j \in {NextIn(s, i, {"\"", "\\"})}})

\* The loop of parseActionArgs at position i, a character it acts on.
RECURSIVE argsLoop(_, _, _)
argsLoop(s, i, depth) ==
    IF i > Len(s) THEN [args |-> <<>>, remaining |-> s, ok |-> FALSE]
    ELSE IF Ch(s, i) = ")" /\ depth - 1 = 0
         THEN [args |-> splitTopLevel(SubSeq(s, 2, i - 1)),
               remaining |-> From(s, i + 1), ok |-> TRUE]
    ELSE argsLoop(s,
                  NextIn(s, IF Ch(s, i) = "\"" THEN skipString(s, i + 1) + 1 ELSE i + 1,
                         {"(", ")", "\""}),
                  IF Ch(s, i) = "(" THEN depth + 1
                  ELSE IF Ch(s, i) = ")" THEN depth - 1 ELSE depth)

\* parseActionArgs parses "(arg1, arg2, ...)" respecting nested parens/strings.
parseActionArgs(s) ==
    IF Len(s) = 0 \/ Ch(s, 1) # "("
    THEN [args |-> <<>>, remaining |-> s, ok |-> FALSE]
    ELSE argsLoop(s, 1, 0)

\* The two last cases of parseTrailingPanic: a bare trailing panic, or an
\* expression alone.
barePanic(rest) ==
    IF HasSuffix(rest, " panic")
    THEN [Expr |-> TrimSpace(SubSeq(rest, 1, Len(rest) - Len(" panic"))), ActionArgs |-> <<>>]
    ELSE [Expr |-> rest, ActionArgs |-> <<>>]

\* parseTrailingPanic once the last " panic(" is found at idx (0: none)
\* and the text from its parenthesis on is parsed.
trailingPanicAt(rest, idx, parsed) ==
    IF idx > 0 /\ parsed.ok /\ TrimSpace(parsed.remaining) = ""
    THEN [Expr |-> TrimSpace(SubSeq(rest, 1, idx - 1)), ActionArgs |-> parsed.args]
    ELSE barePanic(rest)

trailingPanic(rest, idx) ==
    trailingPanicAt(rest, idx,
                    parseActionArgs(IF idx > 0 THEN From(rest, idx + Len(" panic")) ELSE ""))

\* parseTrailingPanic: the expression part and the panic arguments of a
\* @require body.
parseTrailingPanic(rest) ==
    IF rest = "" THEN [Expr |-> "", ActionArgs |-> <<>>]
    ELSE trailingPanic(rest, LastIndex(rest, " panic("))

\* parsePanicAction once the text after "panic" is parsed.
panicActionOf(rest, after, parsed) ==
    IF ~HasPrefix(rest, "panic") THEN <<>>
    ELSE IF Len(after) > 0 /\ Ch(after, 1) \notin {" ", "\t", "("} THEN <<>>
    ELSE IF parsed.ok THEN parsed.args
    ELSE <<>>

\* parsePanicAction: the arguments of a leading panic(...) of a @must or
\* @ensure body (none when the body is anything else).
parsePanicAction(rest) ==
    panicActionOf(rest, From(rest, Len("panic") + 1),
                  parseActionArgs(TrimSpace(From(rest, Len("panic") + 1))))

directiveKind(s) ==
    IF HasPrefix(s, "@require") THEN KindRequire
    ELSE IF HasPrefix(s, "@must") THEN KindMust
    ELSE IF HasPrefix(s, "@ensure") THEN KindEnsure
    ELSE "nil"

\* ParseDirective when the keyword is @require and the body is parsed.
requireDirective(rest, tp) ==
    IF rest = "" \/ tp.Expr = "" THEN NilDirective
    ELSE [Kind |-> KindRequire, Action |-> "panic", ActionArgs |-> tp.ActionArgs,
          Expr |-> tp.Expr]

\* ParseDirective on the stripped comment s, of kind kind, with rest the
\* trimmed text after the keyword.
directiveOf(s, kind, rest) ==
    IF s = "" \/ kind = "nil" THEN NilDirective
    ELSE IF kind = KindRequire THEN requireDirective(rest, parseTrailingPanic(rest))
    ELSE [Kind |-> kind, Action |-> "panic",
          ActionArgs |-> IF rest = "" THEN <<>> ELSE parsePanicAction(rest),
          Expr |-> ""]

directiveFrom(s, kind) == directiveOf(s, kind, TrimSpace(From(s, Len("@" \o kind) + 1)))

\* ParseDirective extracts a Directive from a comment string; NilDirective
\* when the comment is not a valid directive.
directiveIn(s) == directiveFrom(s, directiveKind(s))

ParseDirective(comment) == directiveIn(stripComment(comment))

(***************************************************************************)
(* Source text as go/parser sees it (parser.ParseFile with ParseComments,  *)
(* called at engine.go:105): the comments with their lines, the imports,   *)
(* and whether the file parses.  The model's sources hold no raw-string    *)
(* literals and no comment that spans lines.                               *)
(***************************************************************************)
\* The end of the quoted literal opened before position i (quote q): the
\* position of its closing quote, or beyond the end.
RECURSIVE skipQuoted(_, _, _)
skipQuoted(s, i, q) ==
    The({IF j <= Len(s) /\ Ch(s, j) = "\\" THEN skipQuoted(s, j + 2, q) ELSE j :
         j \in {NextIn(s, i, {q, "\\"})}})

\* The block comment that opens at i and closes at close (0: not on this
\* line), and the position after it.
blockComment(s, i, close) ==
    IF close = 0 THEN [col |-> i, text |-> From(s, i), next |-> Len(s) + 1]
    ELSE [col |-> i, text |-> SubSeq(s, i, close + 1), next |-> close + 2]

\* The comments of one line from position i0 on, left to right, each with
\* its column.
RECURSIVE lineComments(_, _)
lineComments(s, i0) ==
    The({IF i > Len(s) THEN <<>>
         ELSE IF Ch(s, i) \in {"\"", "'"}
              THEN lineComments(s, skipQuoted(s, i + 1, Ch(s, i)) + 1)
         ELSE IF StartsAt(s, i, "//") THEN <<[col |-> i, text |-> From(s, i)]>>
         ELSE IF StartsAt(s, i, "/*")
              THEN The({<<[col |-> c.col, text |-> c.text]>> \o lineComments(s, c.next) :
                        c \in {blockComment(s, i, IndexFrom(s, "*/", i + 2))}})
         ELSE lineComments(s, i + 1) :
         i \in {NextIn(s, i0, {"\"", "'", "/"})}})

\* The code of a line with the comments cs: the text between the comments,
\* each comment replaced by a space.
codeBetween(line, cs) ==
    TrimSpace(ConcatStrings(
        [k \in 1..Len(cs) + 1 |->
            SubSeq(line,
                   IF k = 1 THEN 1 ELSE cs[k - 1].col + Len(cs[k - 1].text),
                   IF k > Len(cs) THEN Len(line) ELSE cs[k].col - 1)
            \o (IF k > Len(cs) THEN "" ELSE " ")]))

codeOf(line) == codeBetween(line, lineComments(line, 1))

\* The code of every line of a file.
fileCode(lines) == [n \in 1..Len(lines) |-> codeOf(lines[n])]

\* f.Comments, flattened: every comment of the file with its 1-based line.
fileComments(lines) ==
    Flatten([n \in 1..Len(lines) |->
        The({[k \in 1..Len(cs) |-> [line |-> n, text |-> cs[k].text]] :
             cs \in {lineComments(lines[n], 1)}})])

\* The opening minus the closing brackets of a line of code, outside
\* string literals.
RECURSIVE nesting(_, _)
nesting(s, i0) ==
    The({IF i > Len(s) THEN 0
         ELSE IF Ch(s, i) \in {"\"", "'"} THEN nesting(s, skipQuoted(s, i + 1, Ch(s, i)) + 1)
         ELSE (IF Ch(s, i) \in {"(", "{", "["} THEN 1 ELSE -1) + nesting(s, i + 1) :
         i \in {NextIn(s, i0, {"\"", "'", "(", "{", "[", ")", "}", "]"})}})

\* The bracket depth after each line of code.
depthAfter(nest) == [k \in 1..Len(nest) |-> SumRange(nest, 1, k)]

\* Whether the code lines (with the depth after each) form a file:
\* a package clause first, balanced brackets, and every line at depth 0
\* the start of a declaration.
wellFormed(code, depth) ==
    /\ \E k \in 1..Len(code) :
         /\ HasPrefix(code[k], "package ")
         /\ \A j \in 1..k - 1 : code[j] = ""
    /\ Len(code) > 0 /\ depth[Len(code)] = 0
    /\ \A k \in 1..Len(code) : depth[k] >= 0
    /\ \A k \in 2..Len(code) :
         depth[k - 1] = 0 /\ code[k] # "" /\ ~HasPrefix(code[k], "package ") =>
             \E kw \in {"import ", "func ", "type ", "var ", "const "} : HasPrefix(code[k], kw)

parsesCode(code) == wellFormed(code, depthAfter([k \in 1..Len(code) |-> nesting(code[k], 1)]))

\* Whether parser.ParseFile accepts the text.
parses(lines) == parsesCode(fileCode(lines))

\* The import spec of a line of code that is a single-line import
\* declaration: its alias ("" without) and its path.
importSpecAt(c, q1, q2) ==
    IF HasPrefix(c, "import ") /\ q1 <= Len(c) /\ q2 <= Len(c)
    THEN <<[name |-> TrimSpace(SubSeq(c, Len("import ") + 1, q1 - 1)),
            path |-> SubSeq(c, q1 + 1, q2 - 1)]>>
    ELSE <<>>

importSpecFrom(c, q1) == importSpecAt(c, q1, NextIn(c, q1 + 1, {"\""}))

importSpecOf(c) == importSpecFrom(c, NextIn(c, 1, {"\""}))

\* f.Imports, from the code of the lines (engine.go:433-444 reads the
\* alias and the path of each).
importsOf(code) == Flatten([n \in 1..Len(code) |-> importSpecOf(code[n])])

fileImports(lines) == importsOf(fileCode(lines))

\* The parsed file as scanPackages keeps it.
ParseFile(lines) == [Comments |-> fileComments(lines), Imports |-> fileImports(lines)]

(***************************************************************************)
(* Paths (path/filepath on clean slash-separated absolute paths).          *)
(***************************************************************************)
Base(p) == From(p, LastIndex(p, "/") + 1)

Dir(p) == SubSeq(p, 1, LastIndex(p, "/") - 1)

Join(dir, name) == dir \o "/" \o name

\* filepath.Rel for a target below base; any other target is returned as
\* it is (the engine falls back to the path itself on error).
Rel(base, target) ==
    IF HasPrefix(target, base \o "/") THEN From(target, Len(base) + 2) ELSE target

\* strings.Split on a separator of one character.
RECURSIVE Split(_, _)
Split(s, sep) ==
    The({IF i > Len(s) THEN <<s>>
         ELSE <<SubSeq(s, 1, i - 1)>> \o Split(From(s, i + 1), sep) :
         i \in {NextIn(s, 1, {sep})}})

(***************************************************************************)
(* engine.go: code generation of the text engine.  A generated block is    *)
(* the sequence of its lines (the source builds it with "\n" inside one    *)
(* element of output; strings.Join makes the two the same text).           *)
(***************************************************************************)
\* fmt's %q on the model's characters.
Quote(s) ==
    "\"" \o ConcatStrings([i \in 1..Len(s) |->
                CASE Ch(s, i) = "\"" -> "\\\""
                  [] Ch(s, i) = "\\" -> "\\\\"
                  [] Ch(s, i) = "\t" -> "\\t"
                  [] Ch(s, i) = "\n" -> "\\n"
                  [] OTHER -> Ch(s, i)]) \o "\""

\* extractIndent returns the leading whitespace of a line.
extractIndent(line) == SubSeq(line, 1, NextNotIn(line, 1, Blank) - 1)

lineDirective(indent, path, lineNum) ==
    indent \o "//line " \o path \o ":" \o ToString(lineNum)

buildPanicBody(d, root, path, line) ==
    IF Len(d.ActionArgs) > 0 THEN "panic(" \o d.ActionArgs[1] \o ")"
    ELSE "panic(" \o Quote("require violation: " \o d.Expr \o " (at "
                           \o Rel(root, path) \o ":" \o ToString(line) \o ")") \o ")"

ifBlock(indent, cond, body) ==
    <<indent \o "if " \o cond \o " {", indent \o "\t" \o body, indent \o "}">>

generateIfBlock(d, indent, root, path, line) ==
    ifBlock(indent, "!(" \o d.Expr \o ")", buildPanicBody(d, root, path, line))

\* The first of the positions that is a hit (0: none).
firstHit(hits) ==
    IF hits[1] > 0 THEN hits[1] ELSE IF hits[2] > 0 THEN hits[2] ELSE hits[3]

cutInlineComment(line, idx) ==
    IF idx > 0 THEN TrimRightSet(SubSeq(line, 1, idx - 1), Blank) ELSE line

\* stripInlineComment removes the inline directive comment from a code line.
stripInlineComment(line, keyword) ==
    cutInlineComment(line, firstHit(<<Index(line, "// " \o keyword),
                                      Index(line, "//" \o keyword),
                                      Index(line, "/* " \o keyword)>>))

\* Whether the character at position i of code is a blank identifier that
\* stands alone.
standaloneBlank(code, i) ==
    /\ Ch(code, i) = "_"
    /\ (i = 1 \/ ~isIdentChar(Ch(code, i - 1)))
    /\ (i = Len(code) \/ ~isIdentChar(Ch(code, i + 1)))

\* The position of the last standalone blank identifier of code (0: none).
lastBlank(code) ==
    CHOOSE i \in 0..Len(code) :
        /\ i # 0 => standaloneBlank(code, i)
        /\ \A k \in i + 1..Len(code) : ~standaloneBlank(code, k)

replaceAt(code, replacement, i) ==
    IF i = 0 THEN code ELSE SubSeq(code, 1, i - 1) \o replacement \o From(code, i + 1)

\* replaceLastBlank replaces the last standalone blank identifier (_).
replaceLastBlank(code, replacement) == replaceAt(code, replacement, lastBlank(code))

\* substituteBlank replaces all standalone _ identifiers in expr with varName.
substituteBlank(expr, varName) ==
    ConcatStrings([i \in 1..Len(expr) |->
        IF standaloneBlank(expr, i) THEN varName ELSE Ch(expr, i)])

inlineKeyword(d) == IF d.Kind = KindEnsure THEN "@ensure" ELSE "@must"

inlineVarName(d) == IF d.Kind = KindEnsure THEN "__inco_ok" ELSE "__inco_err"

rewriteInlineLine(line, d) ==
    replaceLastBlank(stripInlineComment(line, inlineKeyword(d)), inlineVarName(d))

buildInlinePanicBody(d, root, path, line, varName) ==
    IF Len(d.ActionArgs) > 0 THEN "panic(" \o substituteBlank(d.ActionArgs[1], varName) \o ")"
    ELSE IF d.Kind = KindMust THEN "panic(" \o varName \o ")"
    ELSE "panic(" \o Quote("ensure violation at " \o Rel(root, path) \o ":"
                           \o ToString(line)) \o ")"

generateInlineIfBlock(d, indent, root, path, line, varName) ==
    ifBlock(indent,
            IF d.Kind = KindMust THEN varName \o " != nil" ELSE "!" \o varName,
            buildInlinePanicBody(d, root, path, line, varName))

(***************************************************************************)
(* engine.go: import management.                                           *)
(***************************************************************************)
\* stdlibPackages: the package names the engine can import, with their paths.
stdlibPackages ==
    [pkg \in {"fmt", "errors", "strings", "strconv", "log", "os", "io", "math",
              "time", "context", "sync", "sort", "bytes", "regexp", "path",
              "net", "http", "json", "xml", "sql", "reflect", "unsafe"} |->
        CASE pkg = "http" -> "net/http"
          [] pkg = "json" -> "encoding/json"
          [] pkg = "xml" -> "encoding/xml"
          [] pkg = "sql" -> "database/sql"
          [] OTHER -> pkg]

\* The end of the run of word characters that starts at position i (the
\* position after its last character).
wordEnd(s, i) == NextNotIn(s, i, Letters \cup Digits \cup {"_"})

\* Whether  \b([a-zA-Z_]\w*)\.\w+  matches at position i, the word there
\* ending before j.
pkgRefEnds(s, i, j) ==
    /\ i = 1 \/ ~isIdentChar(Ch(s, i - 1))
    /\ isIdentChar(Ch(s, i)) /\ Ch(s, i) \notin Digits
    /\ j <= Len(s) /\ Ch(s, j) = "."
    /\ j + 1 <= Len(s) /\ isIdentChar(Ch(s, j + 1))

pkgRefAt(s, i) == pkgRefEnds(s, i, wordEnd(s, i))

\* The leftmost match of pkgRefRe from position i on (0: none).
firstRef(s, i) ==
    CHOOSE k \in {0} \cup (i..Len(s)) :
        IF k = 0 THEN \A l \in i..Len(s) : ~pkgRefAt(s, l)
        ELSE pkgRefAt(s, k) /\ \A l \in i..k - 1 : ~pkgRefAt(s, l)

\* pkgRefRe.FindAllStringSubmatch(s, -1), group 1 of every match from
\* position i on, as a set: leftmost matches that do not overlap.
RECURSIVE pkgRefs(_, _)
pkgRefs(s, i) ==
    The({IF m = 0 THEN {}
         ELSE The({{SubSeq(s, m, e - 1)} \cup pkgRefs(s, wordEnd(s, e + 1)) :
                   e \in {wordEnd(s, m)}}) :
         m \in {firstRef(s, i)}})

\* The texts of a directive that addMissingImports searches.
directiveSources(d) == d.ActionArgs \o (IF d.Expr # "" THEN <<d.Expr>> ELSE <<>>)

\* Step 1 of addMissingImports: the package names the directives refer to.
neededPackages(directives) ==
    UNION {UNION {pkgRefs(s, 1) : s \in Range(directiveSources(directives[n]))} :
           n \in DOMAIN directives}

\* The local name of an import: its alias, or the last segment of its path.
importName(imp, parts) == IF imp.name # "" THEN imp.name ELSE parts[Len(parts)]

\* Step 2: the names under which the original file imports packages.
importedNames(imports) ==
    {importName(imports[k], Split(imports[k].path, "/")) : k \in DOMAIN imports}

\* Step 3, given the sets of steps 1 and 2.
missingOf(needed, imported) ==
    {pkg \in needed : pkg \notin imported /\ pkg \in DOMAIN stdlibPackages}

\* Step 3: the packages to add, as a set; the source ranges over a map, so
\* the order of toAdd is any order of this set.
missingPackages(directives, imports) ==
    missingOf(neededPackages(directives), importedNames(imports))

\* All orders of a finite set.
Orders(S) ==
    {q \in [1..Cardinality(S) -> S] : \A a, b \in DOMAIN q : a # b => q[a] # q[b]}

importSpecText(imp) ==
    (IF imp.name # "" THEN imp.name \o " " ELSE "") \o "\"" \o imp.path \o "\""

\* An import declaration left in the order of insertion.
sortImportsNot(specs) == specs

\* ast.SortImports, as format.Node applies it to a parenthesised import
\* declaration: the specs ascending by path, equal paths in their order.
sortImports(specs) ==
    CHOOSE q \in [DOMAIN specs -> Range(specs)] :
        /\ \E perm \in [DOMAIN specs -> DOMAIN specs] :
             /\ \A a, b \in DOMAIN specs : a # b => perm[a] # perm[b]
             /\ \A a \in DOMAIN specs : q[a] = specs[perm[a]]
             /\ \A a, b \in DOMAIN specs :
                  a < b /\ specs[perm[a]].path = specs[perm[b]].path => perm[a] < perm[b]
        /\ \A a, b \in DOMAIN specs : a < b => ~StrLess(q[b].path, q[a].path)

\* The lines of a parenthesised import declaration.
importBlock(sorted) ==
    <<"import (">> \o [k \in 1..Len(sorted) |-> "\t" \o importSpecText(sorted[k])] \o <<")">>

\* The printed import declaration: one line for one spec, a sorted block
\* for more.
importDecl(specs) ==
    IF Len(specs) = 1 THEN <<"import " \o importSpecText(specs[1])>>
    ELSE importBlock(sortImports(specs))

\* The first line whose code starts with the keyword.
firstLineWith(code, keyword) ==
    CHOOSE n \in 1..Len(code) :
        HasPrefix(code[n], keyword) /\ \A m \in 1..n - 1 : ~HasPrefix(code[m], keyword)

\* The lines from line from on that are no import declarations.
dropImportLines(content, code, from) ==
    Flatten([n \in 1..Len(content) |->
        IF n < from \/ HasPrefix(code[n], "import ") THEN <<>> ELSE <<content[n]>>])

\* A file without imports gets a declaration after the package clause.
renderNewDecl(content, pkgLine, added) ==
    SubSeq(content, 1, pkgLine) \o <<"">> \o importDecl(added)
    \o SubSeq(content, pkgLine + 1, Len(content))

\* A file with imports gets all of them in the place of its first
\* declaration.
renderMerged(content, code, first, specs) ==
    SubSeq(content, 1, first - 1) \o importDecl(specs)
    \o dropImportLines(content, code, first + 1)

renderImports(content, code, old, added) ==
    IF Len(old) = 0 THEN renderNewDecl(content, firstLineWith(code, "package "), added)
    ELSE renderMerged(content, code, firstLineWith(code, "import "), old \o added)

\* Steps 4 and 5 on a shadow that parses: astutil.AddImport for every
\* element of toAdd in its order, then format.Node.  AddImport merges all
\* import declarations into the first one, or opens one after the package
\* clause; format.Node sorts the block.  The sources are gofmt-formatted,
\* so every other line is printed as it is.
renderWithImports(content, code, toAdd) ==
    renderImports(content, code, importsOf(code),
                  [k \in 1..Len(toAdd) |-> [name |-> "", path |-> stdlibPackages[toAdd[k]]]])

\* Steps 4 and 5 for one order toAdd of the missing packages; code is the
\* code of the lines of content.
importsAdded(content, code, toAdd) ==
    IF Len(toAdd) = 0 THEN content
    ELSE IF ~parsesCode(code) THEN content
    ELSE renderWithImports(content, code, toAdd)

importsAddedIn(content, code, orders) ==
    {importsAdded(content, code, toAdd) : toAdd \in orders}

\* addMissingImports: the contents it can return, one for every order in
\* which the map of needed packages can be ranged over.
addMissingImports(content, imports, directives) ==
    importsAddedIn(content, fileCode(content), Orders(missingPackages(directives, imports)))

(***************************************************************************)
(* engine.go: processFile, up to the shadow's content.                     *)
(***************************************************************************)
\* The comments that are directives, as ParseDirective reads them.
parseComments(comments) == [k \in DOMAIN comments |-> ParseDirective(comments[k].text)]

\* The last directive comment on line n.
lastOn(comments, parsed, n) ==
    CHOOSE k \in DOMAIN comments :
        /\ comments[k].line = n /\ parsed[k] # NilDirective
        /\ \A j \in DOMAIN comments :
             comments[j].line = n /\ parsed[j] # NilDirective => j <= k

directivesOf(comments, parsed) ==
    [n \in {comments[k].line : k \in {j \in DOMAIN comments : parsed[j] # NilDirective}} |->
        parsed[lastOn(comments, parsed, n)]]

\* Step 1: line -> the directive of the last directive comment on it.
collectDirectives(comments) == directivesOf(comments, parseComments(comments))

startsComment(trimmed) == HasPrefix(trimmed, "//") \/ HasPrefix(trimmed, "/*")

isStandaloneLine(line) == startsComment(TrimSpace(line))

\* Step 3: the lines of the standalone @require directives.
standaloneLines(directives, lines) ==
    {n \in DOMAIN directives :
        n <= Len(lines) /\ directives[n].Kind = KindRequire /\ isStandaloneLine(lines[n])}

\* Step 3: the lines of the inline @must / @ensure directives.
inlineLines(directives, lines) ==
    {n \in DOMAIN directives :
        /\ n <= Len(lines) /\ directives[n].Kind \in {KindMust, KindEnsure}
        /\ ~isStandaloneLine(lines[n])}

\* Step 4, one turn of the loop: what line lineNum appends to output.
\* prevWasDirective is set by the turn of a directive line and cleared by
\* the next turn, so it holds exactly when the line before is one.
outputLine(root, path, directives, standalone, inline, line, lineNum, indent) ==
    IF lineNum \in standalone
    THEN <<lineDirective(indent, path, lineNum)>>
         \o generateIfBlock(directives[lineNum], indent, root, path, lineNum)
    ELSE IF lineNum \in inline
    THEN <<lineDirective(indent, path, lineNum), rewriteInlineLine(line, directives[lineNum])>>
         \o generateInlineIfBlock(directives[lineNum], indent, root, path, lineNum,
                                  inlineVarName(directives[lineNum]))
    ELSE (IF lineNum - 1 \in standalone \cup inline
          THEN <<lineDirective(indent, path, lineNum)>> ELSE <<>>)
         \o <<line>>

\* Step 4: the output lines.
buildOutput(root, path, directives, standalone, inline, lines) ==
    Flatten([lineNum \in 1..Len(lines) |->
        outputLine(root, path, directives, standalone, inline,
                   lines[lineNum], lineNum, extractIndent(lines[lineNum]))])

\* processFile without its early returns.
skipsNever(directives, standalone, inline) == FALSE

\* Steps 1 and 3: whether processFile returns before it builds anything
\* (no directive recognised, or none that applies to its line).
skipsFile(directives, standalone, inline) ==
    \/ DOMAIN directives = {}
    \/ standalone = {} /\ inline = {}

processClassified(root, path, f, lines, directives, standalone, inline) ==
    [reads |-> DOMAIN directives # {},
     skips |-> skipsFile(directives, standalone, inline),
     contents |->
         addMissingImports(buildOutput(root, path, directives, standalone, inline, lines),
                           f.Imports, directives)]

processDirectives(root, path, f, lines, directives) ==
    processClassified(root, path, f, lines, directives,
                      standaloneLines(directives, lines), inlineLines(directives, lines))

\* processFile on the parsed file f and the text lines that os.ReadFile
\* returns: whether it reads the file at all, whether it returns without
\* a shadow, and the contents it may hand to writeShadow.
processFile(root, path, f, lines) ==
    processDirectives(root, path, f, lines, collectDirectives(f.Comments))

(***************************************************************************)
(* engine.go: shadow and overlay I/O.  A file's bytes are its lines joined *)
(* by "\n".                                                                *)
(***************************************************************************)
FileBytes(lines) ==
    ConcatStrings([n \in 1..Len(lines) |-> lines[n] \o (IF n < Len(lines) THEN "\n" ELSE "")])

\* The hash of a text from the hashes of its left and right halves.
hashJoin(l, r, modulus) ==
    [h |-> (l.h * r.p + r.h) % modulus, p |-> (l.p * r.p) % modulus]

\* A polynomial hash of the bytes lo..hi of s, with the power of the base
\* that a longer text to the left is multiplied by.
RECURSIVE hashRange(_, _, _, _, _)
hashRange(s, lo, hi, base, modulus) ==
    IF lo > hi THEN [h |-> 0, p |-> 1]
    ELSE IF lo = hi THEN [h |-> Ord(Ch(s, lo)) % modulus, p |-> base % modulus]
    ELSE hashJoin(hashRange(s, lo, (lo + hi) \div 2, base, modulus),
                  hashRange(s, ((lo + hi) \div 2) + 1, hi, base, modulus), modulus)

\* The 32 bytes of a digest from four of them.
digestBytes(words) ==
    [i \in 1..32 |-> (words[((i - 1) % 4) + 1] + 7 * ((i - 1) \div 4)) % 256]

digestWords(h1, h2) == digestBytes(<<h1 % 256, h1 \div 256, h2 % 256, h2 \div 256>>)

digestOf(s) ==
    digestWords(hashRange(s, 1, Len(s), 131, 32749).h, hashRange(s, 1, Len(s), 137, 32719).h)

\* sha256.Sum256: a digest of 32 bytes that depends on every byte of the
\* content and on nothing else.  The digest function is two polynomial
\* hashes; the model's contents have distinct digests.
digest(content) == digestOf(FileBytes(content))

\* fmt's %x on a byte slice: two lowercase hex digits per byte.
Hex(bytes) ==
    ConcatStrings([i \in 1..Len(bytes) |->
        Ch("0123456789abcdef", (bytes[i] \div 16) + 1) \o Ch("0123456789abcdef", (bytes[i] % 16) + 1)])

\* The number of digest bytes in a shadow's name (hash[:8]).
HashPrefixLen == 8

\* A cache directory name that the walk does not skip.
CacheDirNameVisible == "inco_cache"

CacheDirName == ".inco_cache"

cacheDir(root) == Join(root, CacheDirName)

overlayPath(root) == Join(cacheDir(root), "overlay.json")

\* A shadow name without the content hash.
shadowNameFlat(origPath, hash) == TrimSuffix(Base(origPath), ".go") \o "_shadow.go"

\* shadowName of writeShadow, from the digest of the content.
shadowName(origPath, hash) ==
    TrimSuffix(Base(origPath), ".go") \o "_" \o Hex(SubSeq(hash, 1, HashPrefixLen)) \o ".go"

\* Maps (Go's map[string]string) as functions.
EmptyMap == [k \in {} |-> ""]

MapPut(m, k, v) == [x \in DOMAIN m \cup {k} |-> IF x = k THEN v ELSE m[x]]

MapDrop(m, keys) == [x \in DOMAIN m \ keys |-> m[x]]

\* writeShadow registering the shadow whatever os.WriteFile returned.
registerAlways(replace, origPath, shadow, written) == MapPut(replace, origPath, shadow)

\* writeShadow's last step: the shadow is registered when os.WriteFile
\* returned no error.
registerShadow(replace, origPath, shadow, written) ==
    IF written THEN MapPut(replace, origPath, shadow) ELSE replace

overlayEntry(replace, keys, k) ==
    "    " \o Quote(keys[k]) \o ": " \o Quote(replace[keys[k]])
    \o (IF k < Len(keys) THEN "," ELSE "")

overlayLines(replace, keys) ==
    IF Len(keys) = 0 THEN <<"{", "  \"Replace\": {}", "}">>
    ELSE <<"{", "  \"Replace\": {">> \o [k \in 1..Len(keys) |-> overlayEntry(replace, keys, k)]
         \o <<"  }", "}">>

\* json.MarshalIndent(e.Overlay, "", "  ") as lines: the keys of Replace in
\* ascending order.
marshalOverlay(replace) == overlayLines(replace, SortStrings(DOMAIN replace))

(***************************************************************************)
(* The project tree the text engine runs on.                               *)
(***************************************************************************)
\* The absolute root that runGen hands to NewEngine.
Root == "/r"

\* No directive.
SrcPlain == <<"package main", "", "func F(x int) {", "\tg(x)", "}", "">>

\* A standalone @require and an inline @must.
SrcContract ==
    <<"package main", "", "func F(x int) {", "\t// @require x > 0",
      "\tv, _ := h(x) // @must", "\t_ = v", "}", "">>

\* Two @require whose panic arguments refer to packages the file does not
\* import.
SrcImports ==
    <<"package main", "", "func F(x int) {",
      "\t// @require x > 0 panic(fmt.Sprint(x))",
      "\t// @require x < 9 panic(errors.New(\"big\"))", "\tg(x)", "}", "">>

\* Directives on lines of the wrong shape: a standalone @must, an inline
\* @require.
SrcMisplaced ==
    <<"package main", "", "func F(x int) {", "\t// @must",
      "\tg(x) // @require x > 0", "}", "">>

\* A file that does not parse.
SrcBroken == <<"package main", "", "func F(x int) {", "\t// @require x > 0", "">>

\* The files a Run may rewrite, with the texts each of them takes.
SourceTexts ==
    [p \in {"/r/a.go", "/r/p/a.go"} |->
        IF p = "/r/a.go" THEN {SrcPlain, SrcContract, SrcImports, SrcMisplaced, SrcBroken}
        ELSE {SrcPlain, SrcContract}]

SourcePaths == DOMAIN SourceTexts

\* Files with directives in places the walk does not visit.
BystanderPaths ==
    {"/r/a_test.go", "/r/vendor/v.go", "/r/testdata/t.go", "/r/.git/h.go", "/r/notes.txt"}

\* processFile, tabulated for the texts of the tree.
processFileTable ==
    [p \in SourcePaths |->
        [src \in UNION Range(SourceTexts) |-> processFile(Root, p, ParseFile(src), src)]]

parsesTable == [src \in UNION Range(SourceTexts) |-> parses(src)]

\* The digests of the shadows of the tree's texts, tabulated.
sum256Table ==
    [c \in UNION {processFileTable[p][src].contents :
                    p \in SourcePaths, src \in UNION Range(SourceTexts)} |-> digest(c)]

Sum256(content) ==
    IF content \in DOMAIN sum256Table THEN sum256Table[content] ELSE digest(content)

\* The shadow path writeShadow chooses for content.
shadowPath(root, origPath, content) ==
    Join(cacheDir(root), shadowName(origPath, Sum256(content)))

\* Whether the walk descends into the directories named dirs.
descends(dirs) ==
    \A k \in DOMAIN dirs :
        ~(HasPrefix(dirs[k], ".") \/ dirs[k] = "vendor" \/ dirs[k] = "testdata")

\* Whether the walk of scanPackages descends into every directory on the
\* way from root to the file p (root's own name included), and parses p.
walks(root, p) ==
    /\ HasPrefix(p, root \o "/")
    /\ descends(Split(Base(root) \o From(Dir(p), Len(root) + 1), "/"))
    /\ HasSuffix(Base(p), ".go") /\ ~HasSuffix(Base(p), "_test.go")

\* The files of each package ascending by path, the packages in the order
\* dirs.
packageOrder(dirs, paths) ==
    Flatten([k \in 1..Len(dirs) |-> SortStrings({p \in paths : Dir(p) = dirs[k]})])

\* The paths scanPackages returns: the packages ascending by directory, the
\* files of each ascending by path.
scanOrder(paths) == packageOrder(SortStrings({Dir(p) : p \in paths}), paths)

\* What a failed os.WriteFile may leave at a path that held old (Absent
\* when there was no file): nothing changed, an empty file, or a part.
Absent == <<"<absent>">>

failedWrites(old, content) == {old, <<>>, SubSeq(content, 1, Len(content) \div 2)}

(***************************************************************************)
(* State.                                                                  *)
(***************************************************************************)
VARIABLES
    fs,        \* the file system: path -> the lines of the file
    pc,        \* "idle", or where the running inco process is
    queue,     \* the paths Run has still to process
    Replace,   \* e.Overlay.Replace of the running engine
    err,       \* the stage whose error Run returned ("" for none)
    snap,      \* the file system when the latest Run started
    scanned,   \* the files the latest Run parsed
    passed,    \* what the latest runGo passed to the go command
    hist,      \* the trees and results of the last two Runs that succeeded
    nrun,      \* the number of Runs started
    nedit,     \* the number of edits made
    loop,      \* the locals of the processFile that is followed line by line
    exec       \* the execution of a function of a shadow that is followed

vars == <<fs, pc, queue, Replace, err, snap, scanned, passed, hist, nrun, nedit, loop, exec>>

\* No processFile is followed line by line, no function is executed.
NoLoop == [at |-> "none"]

NoExec == [at |-> "none"]

MaxRuns == 2

MaxEdits == 1

Exists(f, p) == p \in DOMAIN f

WriteFile(f, p, content) ==
    IF content = Absent THEN MapDrop(f, {p}) ELSE MapPut(f, p, content)

ReadOr(f, p) == IF Exists(f, p) THEN f[p] ELSE Absent

inCache(p) == HasPrefix(p, cacheDir(Root) \o "/")

\* The part of the file system outside the cache directory.
Tree(f) == MapDrop(f, {p \in DOMAIN f : inCache(p)})

NothingPassed == [overlay |-> FALSE, manifest |-> <<>>]

Init ==
    /\ fs \in {[p \in SourcePaths \cup BystanderPaths |->
                    IF p = "/r/a.go" THEN a ELSE IF p = "/r/p/a.go" THEN b ELSE SrcContract] :
               a \in {SrcPlain, SrcContract}, b \in {SrcPlain, SrcContract}}
    /\ pc = "idle"
    /\ queue = <<>>
    /\ Replace = EmptyMap
    /\ err = ""
    /\ snap = fs
    /\ scanned = {}
    /\ passed = NothingPassed
    /\ hist = <<>>
    /\ nrun = 0
    /\ nedit = 0
    /\ loop = NoLoop
    /\ exec = NoExec

(***************************************************************************)
(* The inco commands on the tree: gen (runGen, which is Run on a new       *)
(* Engine), build (gen, then runGo) and clean; and the user's edits        *)
(* between commands.  Run is given step by step: the scan, one step per    *)
(* file, the manifest.  A step that fails is the step with an I/O error.   *)
(***************************************************************************)
parsesFile(lines) ==
    IF lines \in DOMAIN parsesTable THEN parsesTable[lines] ELSE parses(lines)

\* What processFile does with the file at path.
plan(f, path) ==
    IF path \in SourcePaths /\ f[path] \in DOMAIN processFileTable[path]
    THEN processFileTable[path][f[path]]
    ELSE processFile(Root, path, ParseFile(f[path]), f[path])

visited(f) == {p \in DOMAIN f : walks(Root, p)}

\* runGen: a new Engine, and Run is entered.
RunGen ==
    /\ pc \in {"idle", "done"}
    /\ nrun < MaxRuns
    /\ pc' = "scan"
    /\ Replace' = EmptyMap
    /\ err' = ""
    /\ snap' = fs
    /\ scanned' = {}
    /\ passed' = NothingPassed
    /\ queue' = <<>>
    /\ nrun' = nrun + 1
    /\ UNCHANGED <<fs, hist, nedit, loop, exec>>

Fails(stage) ==
    /\ pc' = "done"
    /\ err' = stage

\* scanPackages: the walk parses every file it visits; Run returns the
\* error of a file that does not parse.
ScanPackages ==
    /\ pc = "scan"
    /\ \E files \in {visited(fs)} :
         /\ scanned' = files
         /\ IF \E p \in files : ~parsesFile(fs[p])
            THEN Fails("scan") /\ UNCHANGED queue
            ELSE pc' = "process" /\ queue' = scanOrder(files) /\ UNCHANGED err
    /\ UNCHANGED <<fs, Replace, snap, passed, hist, nrun, nedit, loop, exec>>

\* scanPackages when the walk itself reports an error.
WalkFails ==
    /\ pc = "scan"
    /\ Fails("scan")
    /\ UNCHANGED <<fs, queue, Replace, snap, scanned, passed, hist, nrun, nedit, loop, exec>>

\* processPackage's next call of processFile, without an I/O error: the
\* file is skipped, or its shadow is written and then registered.
ProcessFile ==
    /\ pc = "process" /\ Len(queue) > 0
    /\ \E r \in {plan(fs, Head(queue))} :
         IF r.skips THEN UNCHANGED <<fs, Replace>>
         ELSE \E content \in r.contents :
                \E shadow \in {shadowPath(Root, Head(queue), content)} :
                    /\ fs' = WriteFile(fs, shadow, content)
                    /\ Replace' = registerShadow(Replace, Head(queue), shadow, TRUE)
    /\ queue' = Tail(queue)
    /\ UNCHANGED <<pc, err, snap, scanned, passed, hist, nrun, nedit, loop, exec>>

\* processFile when os.ReadFile fails.
ReadFails ==
    /\ pc = "process" /\ Len(queue) > 0
    /\ plan(fs, Head(queue)).reads
    /\ Fails("read")
    /\ UNCHANGED <<fs, queue, Replace, snap, scanned, passed, hist, nrun, nedit, loop, exec>>

\* writeShadow when os.MkdirAll or os.WriteFile fails.
ShadowWriteFails ==
    /\ pc = "process" /\ Len(queue) > 0
    /\ \E r \in {plan(fs, Head(queue))} :
         /\ ~r.skips
         /\ \E content \in r.contents :
              \E shadow \in {shadowPath(Root, Head(queue), content)} :
                /\ \E left \in failedWrites(ReadOr(fs, shadow), content) :
                      fs' = WriteFile(fs, shadow, left)
                /\ Replace' = registerShadow(Replace, Head(queue), shadow, FALSE)
    /\ Fails("shadow")
    /\ UNCHANGED <<queue, snap, scanned, passed, hist, nrun, nedit, loop, exec>>

\* The result of a Run that succeeded, as hist keeps it.
runResult(f, replace) ==
    [tree |-> Tree(f), replace |-> replace,
     shadows |-> [k \in DOMAIN replace |-> ReadOr(f, replace[k])]]

\* Run going on to writeOverlay at any time.
allProcessedAlways(q) == TRUE

\* Whether Run has come to writeOverlay: every package is processed.
allProcessed(q) == Len(q) = 0

\* The end of Run: the manifest is written when Replace is not empty.
WriteOverlay ==
    /\ pc = "process" /\ allProcessed(queue)
    /\ fs' = IF DOMAIN Replace # {}
             THEN WriteFile(fs, overlayPath(Root), marshalOverlay(Replace))
             ELSE fs
    /\ pc' = "done"
    /\ hist' = IF Len(hist) = 0 THEN <<runResult(fs', Replace)>>
               ELSE <<hist[Len(hist)], runResult(fs', Replace)>>
    /\ UNCHANGED <<queue, Replace, err, snap, scanned, passed, nrun, nedit, loop, exec>>

\* writeOverlay when os.MkdirAll or os.WriteFile fails.
OverlayWriteFails ==
    /\ pc = "process" /\ allProcessed(queue)
    /\ DOMAIN Replace # {}
    /\ \E left \in failedWrites(ReadOr(fs, overlayPath(Root)), marshalOverlay(Replace)) :
            fs' = WriteFile(fs, overlayPath(Root), left)
    /\ Fails("overlay")
    /\ UNCHANGED <<queue, Replace, snap, scanned, passed, hist, nrun, nedit, loop, exec>>

\* runGo, which build, test and run call after a runGen without error: the
\* go command gets -overlay exactly when the manifest file exists.
RunGo ==
    /\ pc = "done" /\ err = ""
    /\ passed' = IF Exists(fs, overlayPath(Root))
                 THEN [overlay |-> TRUE, manifest |-> fs[overlayPath(Root)]]
                 ELSE NothingPassed
    /\ pc' = "idle"
    /\ UNCHANGED <<fs, queue, Replace, err, snap, scanned, hist, nrun, nedit, loop, exec>>

\* The inco process is over: its engine is gone.
Exited(f) ==
    /\ pc' = "idle"
    /\ queue' = <<>>
    /\ Replace' = EmptyMap
    /\ err' = ""
    /\ snap' = f
    /\ scanned' = {}
    /\ passed' = NothingPassed

\* The user changes a source file between two commands.
EditFile ==
    /\ pc \in {"idle", "done"}
    /\ nedit < MaxEdits
    /\ \E p \in SourcePaths : \E src \in SourceTexts[p] \ {fs[p]} :
            fs' = WriteFile(fs, p, src)
    /\ Exited(fs')
    /\ nedit' = nedit + 1
    /\ UNCHANGED <<hist, nrun, loop, exec>>

\* inco clean: os.RemoveAll of the cache directory.
Clean ==
    /\ pc \in {"idle", "done"}
    /\ \E p \in DOMAIN fs : inCache(p)
    /\ fs' = Tree(fs)
    /\ Exited(fs')
    /\ UNCHANGED <<hist, nrun, nedit, loop, exec>>

Next ==
    \/ RunGen
    \/ ScanPackages
    \/ WalkFails
    \/ ProcessFile
    \/ ReadFails
    \/ ShadowWriteFails
    \/ WriteOverlay
    \/ OverlayWriteFails
    \/ RunGo
    \/ EditFile
    \/ Clean

Spec == Init /\ [][Next]_vars

(***************************************************************************)
(* Properties of the text engine's Run.                                    *)
(***************************************************************************)
\* Whether ParseDirective recognises no comment of the file.
noDirective(lines) ==
    \A c \in Range(fileComments(lines)) : ParseDirective(c.text) = NilDirective

\* The files of the latest Run in which a directive is recognised.
withDirective(f, files) == {p \in files : ~noDirective(f[p])}

\* C1: when the text engine's Run completes, no scanned file in which
\* ParseDirective recognises no comment is a key of Overlay.Replace, and
\* the step of Run that processes such a file writes nothing: no shadow
\* is produced for it.
C1_NoDirectiveNoShadow ==
    /\ [](pc \in {"process", "done"} =>
            \A p \in scanned : noDirective(fs[p]) => p \notin DOMAIN Replace)
    /\ [][pc = "process" /\ Len(queue) > 0 /\ noDirective(fs[Head(queue)]) =>
            fs' = fs /\ Replace' = Replace /\ pc' = "process"]_vars

\* A Run has completed in which one scanned file has no directive and
\* another one got its shadow.
C1_Witness ==
    /\ pc = "done" /\ err = ""
    /\ \E p \in scanned : noDirective(fs[p])
    /\ \E p \in scanned : p \in DOMAIN Replace

\* C3: after the most recent Run completed with an empty overlay there is
\* no overlay.json in the cache directory, and runGo passes the go command
\* no manifest other than that of the Run before it.
C3_NoStaleManifest ==
    /\ pc = "done" /\ err = "" /\ DOMAIN Replace = {} => ~Exists(fs, overlayPath(Root))
    /\ passed.overlay => passed.manifest = marshalOverlay(Replace) /\ DOMAIN Replace # {}

\* C4: a Run that returns an error of the walk, of parsing, of reading or
\* of writing a shadow leaves overlay.json as it was when the Run began
\* (absent if it was absent), and within a Run the manifest changes only in
\* the one step that ends it, after every file has been processed.
C4_ManifestOnlyAtEnd ==
    /\ [](pc = "done" /\ err \in {"scan", "read", "shadow"} =>
            ReadOr(fs, overlayPath(Root)) = ReadOr(snap, overlayPath(Root)))
    /\ [][((pc \in {"scan", "process"})
            /\ ReadOr(fs', overlayPath(Root)) # ReadOr(fs, overlayPath(Root))) =>
                (pc = "process" /\ Len(queue) = 0 /\ pc' = "done")]_vars

\* A Run failed at a shadow after it had registered another file, with the
\* manifest of an earlier Run in place.
C4_Witness ==
    /\ pc = "done" /\ err = "shadow"
    /\ DOMAIN Replace # {}
    /\ Exists(snap, overlayPath(Root))
    /\ Exists(fs, overlayPath(Root))

\* C5: two Runs that succeed on the same tree give the same
\* Overlay.Replace and the same bytes in every shadow, whatever order the
\* maps of the engine are ranged over.
C5_Deterministic ==
    Len(hist) = 2 /\ hist[1].tree = hist[2].tree =>
        hist[1].replace = hist[2].replace /\ hist[1].shadows = hist[2].shadows

\* Two Runs have succeeded on the same tree, with a file that needs two
\* imports added.
C5_Witness ==
    /\ Len(hist) = 2 /\ hist[1].tree = hist[2].tree
    /\ \E p \in DOMAIN hist[2].replace : hist[2].tree[p] = SrcImports

\* The name C6 gives to the shadow of origPath with the bytes content.
hashedName(origPath, content) ==
    cacheDir(Root) \o "/" \o TrimSuffix(Base(origPath), ".go") \o "_"
    \o Hex(SubSeq(Sum256(content), 1, 8)) \o ".go"

\* C6: every file that writeShadow writes is named
\* <base name without .go>_<H>.go in the cache directory, H the 16 hex
\* digits of the first 8 bytes of the digest of exactly the bytes written;
\* so is every value of Overlay.Replace.
C6_NameIsContentHash ==
    /\ [](\A k \in DOMAIN Replace :
            /\ Exists(fs, Replace[k])
            /\ Replace[k] = hashedName(k, fs[Replace[k]])
            /\ Len(Base(Replace[k])) = Len(Base(k)) + 1 + 2 * HashPrefixLen)
    /\ [][pc = "process" /\ pc' = "process" =>
            \A p \in DOMAIN fs' :
                (~Exists(fs, p) \/ fs'[p] # fs[p]) => p = hashedName(Head(queue), fs'[p])]_vars

\* Two files of the same base name have shadows, one of them with imports
\* added.
C6_Witness ==
    /\ pc = "done" /\ err = ""
    /\ Cardinality({Base(k) : k \in DOMAIN Replace}) < Cardinality(DOMAIN Replace)
    /\ \E k \in DOMAIN Replace : fs[k] = SrcImports

\* C7: at every point of a Run each value of Overlay.Replace names an
\* existing file in the cache directory that holds the shadow generated for
\* its key; the manifest written at the end holds exactly Replace; and a
\* Run whose shadow write failed has returned the error without the key.
C7_RegisteredAfterWritten ==
    /\ pc \in {"process", "done"} =>
          \A k \in DOMAIN Replace :
              /\ inCache(Replace[k]) /\ Exists(fs, Replace[k])
              /\ fs[Replace[k]] \in plan(fs, k).contents
    /\ pc = "done" /\ err = "" /\ DOMAIN Replace # {} =>
          ReadOr(fs, overlayPath(Root)) = marshalOverlay(Replace)
    /\ pc = "done" /\ err = "shadow" => Head(queue) \notin DOMAIN Replace

\* A shadow write failed and left a damaged file, after another file had
\* been registered.
C7_Witness ==
    /\ pc = "done" /\ err = "shadow"
    /\ DOMAIN Replace # {}
    /\ fs # snap
    /\ \E p \in DOMAIN fs : inCache(p) /\ Len(fs[p]) = 0

\* C8: no step of Run changes anything outside the cache directory, so
\* every source has the same bytes after Run as before, whether Run
\* succeeds or fails; and no file of the cache directory is scanned.
C8_SourcesUntouched ==
    /\ [][(pc \in {"scan", "process"}) => Tree(fs') = Tree(fs)]_vars
    /\ [](pc \in {"scan", "process", "done"} => Tree(fs) = Tree(snap))
    /\ [](\A p \in scanned : ~inCache(p))

\* A Run over a tree whose cache directory holds an earlier shadow has
\* scanned and has written.
C8_Witness ==
    /\ pc = "done"
    /\ scanned # {}
    /\ \E p \in DOMAIN snap : inCache(p) /\ HasSuffix(p, ".go")
    /\ fs # snap

\* The largest line number of a line directive.
MaxLine == 40

\* Whether a line of a shadow is a line directive.
isLineDirective(line) == HasPrefix(TrimSpace(line), "//line ")

\* The number N that the text is the decimal form of (0: none).
Atoi(text) ==
    CHOOSE n \in 0..MaxLine :
        IF n = 0 THEN \A k \in 1..MaxLine : ToString(k) # text ELSE ToString(n) = text

\* The number N of the line directive  //line <path>:N.
directiveLine(line) == Atoi(From(line, LastIndex(line, ":") + 1))

\* The last line directive before line m of the shadow (0: none).
lastDirectiveBefore(shadow, m) ==
    CHOOSE j \in 0..m - 1 :
        /\ j # 0 => isLineDirective(shadow[j])
        /\ \A k \in j + 1..m - 1 : ~isLineDirective(shadow[k])

\* The nominal line number of line m of the shadow: N for the line after
\* //line <path>:N, one more for each line that follows, and the physical
\* number before the first line directive.
nominalFrom(shadow, m, j) ==
    IF j = 0 THEN m ELSE directiveLine(shadow[j]) + (m - j - 1)

nominal(shadow, m) == nominalFrom(shadow, m, lastDirectiveBefore(shadow, m))

\* The lines of the original that processFile copies as they are.
copiedLines(lines) ==
    (1..Len(lines)) \ (standaloneLines(collectDirectives(fileComments(lines)), lines)
                       \cup inlineLines(collectDirectives(fileComments(lines)), lines))

\* C9: in every shadow of the text engine, also one re-rendered with added
\* imports, each line copied from the original has a nominal line number
\* equal to its original line number.
C9_NominalLines ==
    pc \in {"process", "done"} =>
        \A k \in DOMAIN Replace :
            \A n \in copiedLines(fs[k]) :
                \E m \in 1..Len(fs[Replace[k]]) :
                    /\ fs[Replace[k]][m] = fs[k][n]
                    /\ ~isLineDirective(fs[Replace[k]][m])
                    /\ nominal(fs[Replace[k]], m) = n

\* The same for the shadows that had no import added.
C9_WithoutImports ==
    pc \in {"process", "done"} =>
        \A k \in DOMAIN Replace :
            missingPackages(collectDirectives(fileComments(fs[k])), fileImports(fs[k])) = {} =>
                \A n \in copiedLines(fs[k]) :
                    \E m \in 1..Len(fs[Replace[k]]) :
                        /\ fs[Replace[k]][m] = fs[k][n]
                        /\ ~isLineDirective(fs[Replace[k]][m])
                        /\ nominal(fs[Replace[k]], m) = n


(***************************************************************************)
(* The AST engine (typecheck.go): @require, @ensure and @must comments     *)
(* become statements injected into the file's AST, go/printer prints the   *)
(* AST without its comments, and injectLineDirectives adds the //line      *)
(* comments.  The model's sources for this engine are gofmt-formatted      *)
(* files of one function with a flat body: a package clause, a blank       *)
(* line, the function header, one statement or comment per line, the       *)
(* closing brace.                                                          *)
(***************************************************************************)
\* The nil *Directive of the AST engine.
NoContract == [Kind |-> "nil", ND |-> FALSE, Vars |-> <<>>, Expr |-> "", Message |-> ""]

contractKind(s) ==
    IF HasPrefix(s, "@require") THEN KindRequire
    ELSE IF HasPrefix(s, "@ensure") THEN KindEnsure
    ELSE IF HasPrefix(s, "@must") THEN KindMust
    ELSE "nil"

\* Whether t is a double-quoted string.
quoted(t) == Len(t) >= 2 /\ Ch(t, 1) = "\"" /\ Ch(t, Len(t)) = "\""

\* The identifiers of a zero-value list: the parts between the commas that
\* are not empty.
ndVars(parts) ==
    SelectSeq([k \in 1..Len(parts) |-> TrimSpace(parts[k])], LAMBDA v : Len(v) > 0)

\* <expr> [, "<message>"]: the body is split at its last comma when a
\* quoted message follows it.
exprContract(kind, rest, c) ==
    IF c > 0 /\ quoted(TrimSpace(From(rest, c + 1)))
    THEN [Kind |-> kind, ND |-> FALSE, Vars |-> <<>>,
          Expr |-> TrimSpace(SubSeq(rest, 1, c - 1)),
          Message |-> The({SubSeq(m, 2, Len(m) - 1) : m \in {TrimSpace(From(rest, c + 1))}})]
    ELSE [Kind |-> kind, ND |-> FALSE, Vars |-> <<>>, Expr |-> rest, Message |-> ""]

contractBody(kind, rest) ==
    IF kind = KindMust THEN [NoContract EXCEPT !.Kind = KindMust]
    ELSE IF HasPrefix(rest, "-nd")
         THEN [Kind |-> kind, ND |-> TRUE, Vars |-> ndVars(Split(From(rest, 4), ",")),
               Expr |-> "", Message |-> ""]
    ELSE exprContract(kind, rest, LastIndex(rest, ","))

contractOf(s, kind) ==
    IF kind = "nil" THEN NoContract
    ELSE contractBody(kind, TrimSpace(From(s, Len(kind) + 2)))

\* ParseDirective of the AST engine: a Directive of Kind Require, Ensure or
\* Must with the fields ND, Vars, Expr and Message, nil for any other
\* comment.  A @require or @ensure without a body is a Directive with no
\* expression and no variable.
astParseDirective(comment) ==
    contractOf(stripComment(comment), contractKind(stripComment(comment)))

\* f.Comments, flattened: every comment with its line and column.
astComments(lines) ==
    Flatten([n \in 1..Len(lines) |->
        The({[k \in 1..Len(cs) |-> [line |-> n, col |-> cs[k].col, text |-> cs[k].text]] :
             cs \in {lineComments(lines[n], 1)}})])

\* Whether position a is before position b (token.Pos order).
before(a, b) == a.line < b.line \/ (a.line = b.line /\ a.col < b.col)

\* Whether column i of the line holds code: no space and not in a comment.
isCode(line, cs, i) ==
    /\ Ch(line, i) \notin Blank
    /\ \A k \in DOMAIN cs : ~(cs[k].col <= i /\ i < cs[k].col + Len(cs[k].text))

\* The first and the last column of the code of a line that has code.
codeStart(line, cs) ==
    CHOOSE i \in 1..Len(line) : isCode(line, cs, i) /\ \A j \in 1..i - 1 : ~isCode(line, cs, j)

codeEnd(line, cs) ==
    CHOOSE i \in 1..Len(line) :
        isCode(line, cs, i) /\ \A j \in i + 1..Len(line) : ~isCode(line, cs, j)

\* The elements of a set of numbers, ascending.
Ascending(S) ==
    [k \in 1..Cardinality(S) |-> CHOOSE x \in S : Cardinality({y \in S : y < x}) = k - 1]

\* The assignment token of a statement and where it is (0: none, the
\* statement is no ast.AssignStmt).
assignTok(code) ==
    IF HasPrefix(code, "var ") THEN [at |-> 0, tok |-> ""]
    ELSE IF Index(code, " := ") > 0 THEN [at |-> Index(code, " := "), tok |-> ":="]
    ELSE [at |-> Index(code, " = "), tok |-> "="]

\* The statement on line n: Pos and End, the printed text, and for an
\* assignment Lhs, Tok and the text of Rhs.
stmtOf(n, col, end, code, t) ==
    [line |-> n, col |-> col, end |-> end, text |-> code,
     assign |-> t.at > 0,
     Lhs |-> IF t.at > 0
             THEN The({[k \in 1..Len(parts) |-> TrimSpace(parts[k])] :
                       parts \in {Split(SubSeq(code, 1, t.at - 1), ",")}})
             ELSE <<>>,
     Tok |-> t.tok,
     Rhs |-> IF t.at > 0 THEN From(code, t.at + Len(t.tok) + 2) ELSE ""]

astStmt(lines, code, n, cs) ==
    stmtOf(n, codeStart(lines[n], cs), codeEnd(lines[n], cs) + 1, code[n], assignTok(code[n]))

isFuncHeader(c) == HasPrefix(c, "func ") /\ HasSuffix(c, "{")

\* The line of the function header, and the line of the closing brace of
\* its body (0: none).
bodyOpen(code) ==
    CHOOSE n \in 0..Len(code) :
        /\ n # 0 => isFuncHeader(code[n])
        /\ \A k \in 1..(IF n = 0 THEN Len(code) ELSE n - 1) : ~isFuncHeader(code[k])

bodyClose(code, open) ==
    CHOOSE n \in {0} \cup (open + 1..Len(code)) :
        /\ n # 0 => code[n] = "}"
        /\ \A k \in open + 1..(IF n = 0 THEN Len(code) ELSE n - 1) : code[k] # "}"

\* The parameters of the function header with their types, as written.
paramOf(field, sp) ==
    [name |-> SubSeq(field, 1, sp - 1), type |-> TrimSpace(From(field, sp + 1))]

paramsOf(header) ==
    The({[k \in 1..Len(fields) |-> paramOf(fields[k], Index(fields[k], " "))] :
         fields \in {ndVars(Split(SubSeq(header, Index(header, "(") + 1,
                                         Index(header, ")") - 1), ","))}})

funcDecl(lines, code, open, close) ==
    [Package |-> code[1],
     Header |-> code[open],
     Params |-> paramsOf(code[open]),
     Lbrace |-> [line |-> open, col |-> codeEnd(lines[open], lineComments(lines[open], 1))],
     Rbrace |-> close,
     List |-> The({[k \in 1..Len(at) |-> astStmt(lines, code, at[k], lineComments(lines[at[k]], 1))] :
                   at \in {Ascending({n \in open + 1..close - 1 : code[n] # ""})}}),
     Comments |-> astComments(lines)]

funcDeclFrom(lines, code, open) == funcDecl(lines, code, open, bodyClose(code, open))

\* The *ast.File that loadPackage keeps for a file (parser.ParseDir with
\* ParseComments).
astParseFile(lines) == funcDeclFrom(lines, fileCode(lines), bodyOpen(fileCode(lines)))

\* Whether parser.ParseDir accepts the file.
astParses(lines) ==
    /\ parses(lines)
    /\ bodyOpen(fileCode(lines)) > 0
    /\ bodyClose(fileCode(lines), bodyOpen(fileCode(lines))) > 0

\* collectDirectives: the comments that are directives, in source order,
\* each with its position.
astCollectDirectives(comments) ==
    SelectSeq([k \in 1..Len(comments) |->
                  [Directive |-> astParseDirective(comments[k].text),
                   line |-> comments[k].line, col |-> comments[k].col]],
              LAMBDA di : di.Directive.Kind # "nil")

(***************************************************************************)
(* The generated statements.  A statement of the new list is the lines     *)
(* go/printer gives it, the line of the original it stands on (orig, 0     *)
(* for an injected statement), and the source line of its last token that  *)
(* has a position (pos, 0 when no token has one).                          *)
(***************************************************************************)
\* The line of the package's first file that holds the byte at offset off:
\* parser.ParseExpr gives the nodes of an expression positions in a file
\* set of its own, which go/printer reads in the package's file set.
lineAtOffset(first, off) ==
    CHOOSE n \in 1..Len(first) + 1 :
        /\ n = Len(first) + 1 \/ SumRange([k \in 1..n |-> Len(first[k]) + 1], 1, n) > off
        /\ \A m \in 1..n - 1 : SumRange([k \in 1..m |-> Len(first[k]) + 1], 1, m) <= off

\* Where the last token of an expression starts (an offset from 0).
lastTokenOffset(expr) ==
    IF isIdentChar(Ch(expr, Len(expr)))
    THEN PrevNotIn(expr, Len(expr), Letters \cup Digits \cup {"_"})
    ELSE Len(expr) - 1

exprLine(first, expr) == lineAtOffset(first, lastTokenOffset(expr))

\* Whether parser.ParseExpr accepts the expression: its brackets balance.
parsesExpr(expr) == nesting(expr, 1) = 0

\* makeIfPanicStmt builds: if <cond> { panic("<msg>") }
makeIfPanicStmt(cond, msg, pos) ==
    [orig |-> 0, pos |-> pos,
     lines |-> <<"if " \o cond \o " {", "\tpanic(" \o Quote(msg) \o ")", "}">>]

\* makeIfPanicErrStmt builds:
\* if <errVar> != nil { panic("<msg>: " + <errVar>.Error()) }
makeIfPanicErrStmt(errVar, msg) ==
    [orig |-> 0, pos |-> 0,
     lines |-> <<"if " \o errVar \o " != nil {",
                 "\tpanic(" \o Quote(msg \o ": ") \o " + " \o errVar \o ".Error())", "}">>]

indentLines(ls) == [k \in 1..Len(ls) |-> "\t" \o ls[k]]

\* The greatest pos of the statements (0: none has one).
lastPos(stmts) ==
    IF \A k \in DOMAIN stmts : stmts[k].pos = 0 THEN 0
    ELSE stmts[CHOOSE k \in DOMAIN stmts :
                   stmts[k].pos > 0 /\ \A j \in k + 1..Len(stmts) : stmts[j].pos = 0].pos

\* makeDeferStmt wraps statements in: defer func() { ... }()
makeDeferStmt(stmts) ==
    [orig |-> 0, pos |-> lastPos(stmts),
     lines |-> IF Len(stmts) = 0 THEN <<"defer func() {}()">>
               ELSE <<"defer func() {">>
                    \o indentLines(Flatten([k \in 1..Len(stmts) |-> stmts[k].lines]))
                    \o <<"}()">>]

\* ResolveVarType: the type of a parameter of the enclosing function ("":
\* the name does not resolve).
ResolveVarType(params, varName) ==
    IF \E k \in DOMAIN params : params[k].name = varName
    THEN params[CHOOSE k \in DOMAIN params : params[k].name = varName].type
    ELSE ""

IntegerTypes == {"int", "int8", "int16", "int32", "int64", "uint", "uint8", "uint16",
                 "uint32", "uint64", "uintptr", "byte", "rune"}

\* ZeroCheckExpr: the condition that holds when the variable is at its
\* zero value, for the basic and the reference types.
ZeroCheckExpr(varName, typ) ==
    IF typ = "string" THEN varName \o " == \"\""
    ELSE IF typ \in IntegerTypes THEN varName \o " == 0"
    ELSE IF typ \in {"float32", "float64"} THEN varName \o " == 0.0"
    ELSE IF typ \in {"complex64", "complex128"} THEN varName \o " == 0"
    ELSE IF typ = "bool" THEN "!" \o varName
    ELSE varName \o " == nil"

\* ZeroValueDesc: the description of the zero value in the message.
ZeroValueDesc(typ) ==
    IF typ = "string" THEN "empty string"
    ELSE IF typ \in IntegerTypes \cup {"float32", "float64", "complex64", "complex128"}
         THEN "zero"
    ELSE IF typ = "bool" THEN "false"
    ELSE "nil"

ndCheck(v, typ, loc, protocol) ==
    makeIfPanicStmt(ZeroCheckExpr(v, typ),
                    "inco // " \o protocol \o " -nd violation: [" \o v \o "] is defaulted ("
                        \o ZeroValueDesc(typ) \o ") at " \o loc,
                    0)

\* generateNDChecks: one zero-value check per variable.
generateNDChecks(names, loc, protocol, params) ==
    [k \in 1..Len(names) |-> ndCheck(names[k], ResolveVarType(params, names[k]), loc, protocol)]

exprCheck(d, loc, protocol, first) ==
    makeIfPanicStmt("!(" \o d.Expr \o ")",
                    (IF d.Message = "" THEN "inco // " \o protocol \o " violation: " \o d.Expr
                     ELSE d.Message) \o " at " \o loc,
                    exprLine(first, d.Expr))

\* The value of a decimal digit.
digitValue(t) == CHOOSE n \in 0..9 : ToString(n) = t

\* The comparison of two constants.
compares(a, op, b) ==
    CASE op = ">" -> a > b
      [] op = "<" -> a < b
      [] op = "==" -> a = b
      [] op = "!=" -> a # b

\* The identifiers among the tokens of an expression.
identsOf(toks) ==
    {toks[k] : k \in {j \in DOMAIN toks : Len(toks[j]) > 0 /\ Ch(toks[j], 1) \in Letters}}
        \ {"true", "false"}

\* types.Eval on an expression at a position in the function with the
\* parameters params: "error" when the expression does not parse or names
\* something that is not in scope, the constant it folds to when it is a
\* boolean constant, "none" when it is no constant.
evalConst(params, expr, toks) ==
    IF ~parsesExpr(expr) \/ expr = "" THEN "error"
    ELSE IF \E v \in identsOf(toks) : \A k \in DOMAIN params : params[k].name # v THEN "error"
    ELSE IF expr \in {"true", "false"} THEN expr
    ELSE IF /\ Len(toks) = 3 /\ toks[1] \in Digits /\ toks[3] \in Digits
            /\ toks[2] \in {">", "<", "==", "!="}
         THEN IF compares(digitValue(toks[1]), toks[2], digitValue(toks[3]))
              THEN "true" ELSE "false"
    ELSE "none"

\* EvalRequireExpr: the warning for an expression that is a compile-time
\* false, "" for any other.
EvalRequireExpr(params, expr) ==
    IF evalConst(params, expr, Split(expr, " ")) = "false"
    THEN "expression " \o Quote(expr) \o " is always false (compile-time constant)"
    ELSE ""

\* What generateRequire writes to os.Stderr: the warning of the resolver,
\* when there is one, and the failure of parser.ParseExpr.
requireStderr(d, loc, params, resolver) ==
    IF d.ND \/ d.Expr = "" THEN <<>>
    ELSE (IF resolver /\ EvalRequireExpr(params, d.Expr) # ""
          THEN <<"inco: " \o EvalRequireExpr(params, d.Expr) \o " at " \o loc>> ELSE <<>>)
         \o (IF parsesExpr(d.Expr) THEN <<>>
             ELSE <<"inco: parse @require expr failed at " \o loc>>)

\* generateRequire, were the warning to take the place of the check.
generateRequireOrWarn(d, loc, params, first) ==
    IF d.ND THEN generateNDChecks(d.Vars, loc, "require", params)
    ELSE IF d.Expr # "" /\ parsesExpr(d.Expr) /\ EvalRequireExpr(params, d.Expr) = ""
         THEN <<exprCheck(d, loc, "require", first)>>
    ELSE <<>>

\* generateRequire: the checks of a @require; none for one without a body
\* or with an expression that does not parse.
generateRequire(d, loc, params, first) ==
    IF d.ND THEN generateNDChecks(d.Vars, loc, "require", params)
    ELSE IF d.Expr # "" /\ parsesExpr(d.Expr) THEN <<exprCheck(d, loc, "require", first)>>
    ELSE <<>>

\* generateEnsure: the checks of an @ensure in a deferred function.
generateEnsure(d, loc, params, first) ==
    IF d.ND THEN <<makeDeferStmt(generateNDChecks(d.Vars, loc, "ensure", params))>>
    ELSE IF d.Expr # "" /\ parsesExpr(d.Expr)
         THEN <<makeDeferStmt(<<exprCheck(d, loc, "ensure", first)>>)>>
    ELSE <<>>

\* generateAssertion: the statements of a directive that is no @must.
generateAssertion(di, path, params, first) ==
    IF di.Directive.Kind = KindRequire
    THEN generateRequire(di.Directive, path \o ":" \o ToString(di.line), params, first)
    ELSE IF di.Directive.Kind = KindEnsure
    THEN generateEnsure(di.Directive, path \o ":" \o ToString(di.line), params, first)
    ELSE <<>>

isIdent(e) == Len(e) > 0 /\ \A i \in 1..Len(e) : isIdentChar(Ch(e, i))

\* The last blank identifier of the left-hand side (0: none).
lastBlankLhs(lhs) ==
    CHOOSE k \in 0..Len(lhs) :
        /\ k # 0 => lhs[k] = "_"
        /\ \A j \in k + 1..Len(lhs) : lhs[j] # "_"

joinLhs(lhs) ==
    ConcatStrings([k \in 1..Len(lhs) |-> lhs[k] \o (IF k < Len(lhs) THEN ", " ELSE "")])

origStmt(stmt, text) == [orig |-> stmt.line, pos |-> stmt.line, lines |-> <<text>>]

\* The assignment with its last blank identifier renamed and its token
\* made a short variable declaration.
renamedAssign(stmt, k, errVar) ==
    origStmt(stmt, joinLhs([stmt.Lhs EXCEPT ![k] = errVar]) \o " := " \o stmt.Rhs)

mustFor(stmt, loc, line, k) ==
    IF k > 0
    THEN <<renamedAssign(stmt, k, "_inco_err_" \o ToString(line)),
           makeIfPanicErrStmt("_inco_err_" \o ToString(line), "inco // must violation at " \o loc)>>
    ELSE IF \E j \in DOMAIN stmt.Lhs : stmt.Lhs[j] = "err"
    THEN <<origStmt(stmt, stmt.text),
           makeIfPanicErrStmt("err", "inco // must violation at " \o loc)>>
    ELSE <<origStmt(stmt, stmt.text)>>

\* generateMustForAssign, with the assignment it changes in place: the
\* assignment, then the error check when the left-hand side has a blank
\* identifier or err.
generateMustForAssign(stmt, path, di) ==
    mustFor(stmt, path \o ":" \o ToString(di.line), di.line, lastBlankLhs(stmt.Lhs))

\* The same directives in descending position: an order in which the range
\* over dirMap may yield them, were they left unsorted.
betweenUnsorted(dirs, live, prevEnd, stmt) ==
    [k \in 1..Cardinality({i \in live : before(prevEnd, dirs[i]) /\ before(dirs[i], stmt)}) |->
        CHOOSE x \in {i \in live : before(prevEnd, dirs[i]) /\ before(dirs[i], stmt)} :
            Cardinality({y \in {i \in live : before(prevEnd, dirs[i]) /\ before(dirs[i], stmt)} :
                            y > x}) = k - 1]

\* The directives of dirMap between prevEnd and the statement, ascending.
betweenOf(dirs, live, prevEnd, stmt) ==
    Ascending({i \in live : before(prevEnd, dirs[i]) /\ before(dirs[i], stmt)})

\* The last @must among them (0: none).
pendingMustOf(dirs, between) ==
    IF \E j \in DOMAIN between : dirs[between[j]].Directive.Kind = KindMust
    THEN between[CHOOSE j \in DOMAIN between :
                     /\ dirs[between[j]].Directive.Kind = KindMust
                     /\ \A l \in j + 1..Len(between) :
                            dirs[between[l]].Directive.Kind # KindMust]
    ELSE 0

\* The @must directives still in dirMap on the line of the statement.
inlineMusts(dirs, live, stmt) ==
    {i \in live : dirs[i].Directive.Kind = KindMust /\ dirs[i].line = stmt.line}

\* One turn of processStmtList's loop with the directives between, the
\* pending @must and the directives left after the others are consumed:
\* the statements appended, and dirMap afterwards.  The inline @must loop
\* ranges over a map; every directive it may find first gives the same
\* statements.
stmtTurn(dirs, live, stmt, path, params, first, between, pending, inline) ==
    [added |->
        Flatten([j \in 1..Len(between) |->
                    generateAssertion(dirs[between[j]], path, params, first)])
        \o (IF pending # 0 /\ stmt.assign THEN generateMustForAssign(stmt, path, dirs[pending])
            ELSE IF stmt.assign /\ inline # {}
                 THEN generateMustForAssign(stmt, path, dirs[The(inline)])
            ELSE <<origStmt(stmt, stmt.text)>>),
     live |->
        IF pending # 0 /\ stmt.assign THEN live \ {pending}
        ELSE IF stmt.assign /\ inline # {} THEN live \ {The(inline)}
        ELSE live]

consumed(dirs, between) ==
    {between[j] : j \in {l \in DOMAIN between : dirs[between[l]].Directive.Kind # KindMust}}

stmtTurnAt(dirs, live, stmt, prevEnd, path, params, first) ==
    The({stmtTurn(dirs, live \ consumed(dirs, between), stmt, path, params, first, between,
                  pendingMustOf(dirs, between),
                  inlineMusts(dirs, live \ consumed(dirs, between), stmt)) :
         between \in {betweenOf(dirs, live, prevEnd, stmt)}})

\* processStmtList: the new statement list of a block whose statements are
\* stmts from the i-th on, with the directives live still in dirMap.
RECURSIVE processStmtsFrom(_, _, _, _, _, _, _, _, _)
processStmtsFrom(stmts, i, startPos, dirs, live, path, params, first, newList) ==
    IF i > Len(stmts) THEN newList
    ELSE The({processStmtsFrom(stmts, i + 1, startPos, dirs, t.live, path, params, first,
                               newList \o t.added) :
              t \in {stmtTurnAt(dirs, live, stmts[i],
                                IF i > 1 THEN [line |-> stmts[i - 1].line, col |-> stmts[i - 1].end]
                                ELSE startPos,
                                path, params, first)}})

processStmtList(stmts, startPos, dirs, path, params, first) ==
    processStmtsFrom(stmts, 1, startPos, dirs, DOMAIN dirs, path, params, first, <<>>)

\* injectAssertions: the body of the function with the assertions.
injectAssertions(f, dirs, path, first) ==
    processStmtList(f.List, f.Lbrace, dirs, path, f.Params, first)

(***************************************************************************)
(* go/printer on the file without its comments (Fprint at typecheck.go,    *)
(* after f.Comments = nil).  Before a statement the printer breaks the     *)
(* line once, and twice (a blank line) when the statement's source line    *)
(* is two or more lines after the source line of the token printed last;   *)
(* an injected statement has no source line.                               *)
(***************************************************************************)
lineBreaks(line, cur) ==
    IF line - cur >= 2 THEN 2 ELSE 1

blankLines(n) == [k \in 1..n |-> ""]

RECURSIVE printStmts(_, _, _, _)
printStmts(list, k, cur, out) ==
    IF k > Len(list) THEN [lines |-> out, cur |-> cur]
    ELSE printStmts(list, k + 1,
                    IF list[k].pos > 0 THEN list[k].pos ELSE cur,
                    out \o blankLines(lineBreaks(list[k].orig, cur) - 1)
                        \o indentLines(list[k].lines))

printBody(f, body) ==
    <<f.Package, "", f.Header>> \o body.lines
        \o blankLines(lineBreaks(f.Rbrace, body.cur) - 1) \o <<"}", "">>

\* The text of the shadow before the line directives, as its lines.
Fprint(f, newList) == printBody(f, printStmts(newList, 1, f.Lbrace.line, <<>>))

\* readLines: the lines of the file as bufio.Scanner gives them.
readLines(lines) ==
    IF Len(lines) > 0 /\ lines[Len(lines)] = "" THEN SubSeq(lines, 1, Len(lines) - 1)
    ELSE lines

\* isContractComment checks if a line is an inco contract comment.
isContractComment(line) ==
    /\ HasPrefix(TrimSpace(line), "//")
    /\ \E kw \in {"@require", "@ensure", "@must"} :
            HasPrefix(TrimSpace(From(TrimSpace(line), 3)), kw)

\* The first line from at on that is no contract comment.
skipContract(origLines, at) ==
    CHOOSE j \in at..Len(origLines) + 1 :
        /\ j = Len(origLines) + 1 \/ ~isContractComment(origLines[j])
        /\ \A k \in at..j - 1 : isContractComment(origLines[k])

\* As matched, with the //line comment put in the place of the shadow line.
matchedReplacing(at, needs, sLine, path) ==
    [origIdx |-> at + 1, needs |-> FALSE,
     out |-> IF needs THEN <<"//line " \o path \o ":" \o ToString(at)>> ELSE <<sLine>>]

matched(at, needs, sLine, path) ==
    [origIdx |-> at + 1, needs |-> FALSE,
     out |-> (IF needs THEN <<"//line " \o path \o ":" \o ToString(at)>> ELSE <<>>) \o <<sLine>>]

unmatched(at, sLine) == [origIdx |-> at, needs |-> TRUE, out |-> <<sLine>>]

\* One turn of injectLineDirectives' loop: origIdx is the 1-based number of
\* the original line expected next, j the first line from there on that is
\* no contract comment.
lineTurn(sLine, origLines, origIdx, needs, path, j) ==
    IF origIdx > Len(origLines) THEN unmatched(origIdx, sLine)
    ELSE IF TrimSpace(sLine) = TrimSpace(origLines[origIdx])
         THEN matched(origIdx, needs, sLine, path)
    ELSE IF j > origIdx /\ j <= Len(origLines) /\ TrimSpace(sLine) = TrimSpace(origLines[j])
         THEN matched(j, needs, sLine, path)
    ELSE unmatched(j, sLine)

RECURSIVE lineDirectivesFrom(_, _, _, _, _, _, _)
lineDirectivesFrom(shadowLines, k, origLines, origIdx, needs, path, result) ==
    IF k > Len(shadowLines) THEN result
    ELSE The({lineDirectivesFrom(shadowLines, k + 1, origLines, t.origIdx, t.needs, path,
                                 result \o t.out) :
              t \in {lineTurn(shadowLines[k], origLines, origIdx, needs, path,
                              IF origIdx > Len(origLines) THEN origIdx
                              ELSE skipContract(origLines, origIdx))}})

\* injectLineDirectives: the shadow with a //line comment before each line
\* that matches the expected original line after lines that did not.
injectLineDirectives(shadow, origLines, absPath) ==
    lineDirectivesFrom(shadow, 1, origLines, 1, FALSE, absPath, <<>>)

\* contentHash returns a hex-encoded SHA-256 hash of the content.
contentHash(content) == Hex(digest(content))

\* The number of hex digits of the hash in a shadow's name (hash[:12]).
ShadowHashLen == 12

astShadowPath(root, path, content) ==
    Join(cacheDir(root),
         TrimSuffix(Base(path), ".go") \o "_"
             \o SubSeq(contentHash(content), 1, ShadowHashLen) \o ".go")

\* The number of injected statements of a statement list.
injectedCount(newList) == Cardinality({k \in DOMAIN newList : newList[k].orig = 0})

shadowOf(root, path, newList, content) ==
    [skips |-> FALSE, injected |-> injectedCount(newList), content |-> content,
     shadow |-> astShadowPath(root, path, content)]

injectInto(root, path, f, lines, dirs, newList) ==
    shadowOf(root, path, newList,
             injectLineDirectives(Fprint(f, newList), readLines(lines), path))

processWith(root, path, f, lines, dirs, first) ==
    IF Len(dirs) = 0
    THEN [skips |-> TRUE, injected |-> 0, content |-> <<>>, shadow |-> ""]
    ELSE injectInto(root, path, f, lines, dirs, injectAssertions(f, dirs, path, first))

processParsed(root, path, f, lines, first) ==
    processWith(root, path, f, lines, astCollectDirectives(f.Comments), first)

\* processFile of the AST engine on a file that loadFileWithTypes loaded:
\* whether it has no directive, and otherwise the number of statements
\* injected, the content of the shadow and the shadow's path.  first is
\* the first file of the package.
astProcessFile(root, path, lines, first) ==
    processParsed(root, path, astParseFile(lines), lines, first)

(***************************************************************************)
(* The project tree the AST engine runs on.                                *)
(***************************************************************************)
AstHead == <<"package main", "", "func F(x int) {">>

\* No directive.
AstPlain == AstHead \o <<"\tg(x)", "}", "">>

\* A @require with an expression.
AstRequire == AstHead \o <<"\t// @require x > 0", "\tg(x)", "}", "">>

\* A @require without a body.
AstEmptyRequire == AstHead \o <<"\t// @require", "\tg(x)", "}", "">>

\* An inline @must on an assignment with a blank identifier.
AstMustInline == AstHead \o <<"\tv, _ := h(x) // @must", "\tk(v)", "}", "">>

\* A @must on its own line before a statement that is no assignment.
AstMustNoAssign == AstHead \o <<"\t// @must", "\tg(x)", "}", "">>

\* A directive after the last statement of the body.
AstTrailing == AstHead \o <<"\tg(x)", "\t// @require x > 0", "}", "">>

\* An ordinary comment before a @require with a message.
AstNote ==
    AstHead \o <<"\t// note", "\tg(x)", "\t// @require x < 9, \"small\"", "\tk(x)", "}", "">>

\* Zero-value checks and a postcondition.
AstEnsure ==
    AstHead \o <<"\t// @require -nd x", "\t// @ensure x > 0", "\t// @ensure -nd", "\tg(x)",
                 "}", "">>

\* A file that does not parse.
AstBroken == AstHead \o <<"\t// @require x > 0", "">>

AstTexts ==
    {AstPlain, AstRequire, AstEmptyRequire, AstMustInline, AstMustNoAssign, AstTrailing,
     AstNote, AstEnsure, AstBroken}

\* The files a Run of the AST engine may rewrite: one per package.
AstPaths == {"/r/a.go", "/r/p/b.go"}

astProcessTable ==
    [p \in AstPaths |->
        [src \in {t \in AstTexts : astParses(t)} |-> astProcessFile(Root, p, src, src)]]

astParsesTable == [src \in AstTexts |-> astParses(src)]

\* Whether filepath.Walk visits the components of a before those of b:
\* the entries of a directory in lexical order.
walkLessAt(a, b, k) ==
    IF k > Len(a) \/ k > Len(b) THEN Len(a) < Len(b) ELSE StrLess(a[k], b[k])

walkLess(a, b) ==
    walkLessAt(a, b, CHOOSE k \in 1..Len(a) + 1 :
                        /\ k > Len(a) \/ k > Len(b) \/ a[k] # b[k]
                        /\ \A j \in 1..k - 1 : j <= Len(b) /\ a[j] = b[j])

\* The order in which the walk of Run comes to the files.
walkOrder(paths) ==
    [k \in 1..Cardinality(paths) |->
        CHOOSE p \in paths :
            Cardinality({q \in paths : walkLess(Split(q, "/"), Split(p, "/"))}) = k - 1]

\* Whether the walk of Run calls processFile for p: no directory on the
\* way is hidden, vendor or testdata, and p is a Go file that is no test.
astVisits(root, p) ==
    /\ HasPrefix(p, root \o "/")
    /\ \A d \in Range(Split(Base(root) \o From(Dir(p), Len(root) + 1), "/")) :
            ~(HasPrefix(d, ".") \/ d = "vendor" \/ d = "testdata")
    /\ HasSuffix(p, ".go") /\ ~HasSuffix(p, "_test.go")

\* The files parser.ParseDir parses for the package of dir.
packageFiles(f, dir) ==
    {p \in DOMAIN f : Dir(p) = dir /\ HasSuffix(Base(p), ".go") /\ ~HasSuffix(Base(p), "_test.go")}

astParsesFile(lines) ==
    IF lines \in DOMAIN astParsesTable THEN astParsesTable[lines] ELSE astParses(lines)

\* Whether loadPackage succeeds on the package of dir.
loadsPackage(f, dir) == \A p \in packageFiles(f, dir) : astParsesFile(f[p])

\* The first file of the package in the file set.
firstFile(f, dir) == SortStrings(packageFiles(f, dir))[1]

\* What processFile of the AST engine does with the file at path.
astPlan(f, path) ==
    IF path \in AstPaths /\ f[path] \in DOMAIN astProcessTable[path]
       /\ firstFile(f, Dir(path)) = path
    THEN astProcessTable[path][f[path]]
    ELSE astProcessFile(Root, path, f[path], f[firstFile(f, Dir(path))])

InitAst ==
    /\ fs \in {[p \in AstPaths \cup BystanderPaths |->
                    IF p = "/r/a.go" THEN a ELSE IF p = "/r/p/b.go" THEN b ELSE AstRequire] :
               a \in AstTexts, b \in AstTexts}
    /\ pc = "idle"
    /\ queue = <<>>
    /\ Replace = EmptyMap
    /\ err = ""
    /\ snap = fs
    /\ scanned = {}
    /\ passed = NothingPassed
    /\ hist = <<>>
    /\ nrun = 0
    /\ nedit = 0
    /\ loop = NoLoop
    /\ exec = NoExec

\* runGen with the AST engine: a new Engine, Run makes the cache directory
\* and starts the walk.
AstRunGen ==
    /\ pc \in {"idle", "done"}
    /\ nrun < MaxRuns
    /\ pc' = "walk"
    /\ queue' = walkOrder({p \in DOMAIN fs : astVisits(Root, p)})
    /\ Replace' = EmptyMap
    /\ err' = ""
    /\ snap' = fs
    /\ scanned' = {}
    /\ nrun' = nrun + 1
    /\ UNCHANGED <<fs, passed, hist, nedit, loop, exec>>

\* Run when os.MkdirAll fails.
AstMkdirFails ==
    /\ pc \in {"idle", "done"}
    /\ nrun < MaxRuns
    /\ Fails("mkdir")
    /\ queue' = <<>>
    /\ Replace' = EmptyMap
    /\ snap' = fs
    /\ scanned' = {}
    /\ nrun' = nrun + 1
    /\ UNCHANGED <<fs, passed, hist, nedit, loop, exec>>

\* The walk's next call of processFile, without an error: the file has no
\* directive, or its shadow is written and registered.
AstProcessFile ==
    /\ pc = "walk" /\ Len(queue) > 0
    /\ loadsPackage(fs, Dir(Head(queue)))
    /\ \E r \in {astPlan(fs, Head(queue))} :
         IF r.skips THEN UNCHANGED <<fs, Replace>>
         ELSE /\ fs' = WriteFile(fs, r.shadow, r.content)
              /\ Replace' = MapPut(Replace, Head(queue), r.shadow)
    /\ queue' = Tail(queue)
    /\ scanned' = scanned \cup {Head(queue)}
    /\ UNCHANGED <<pc, err, snap, passed, hist, nrun, nedit, loop, exec>>

\* processFile when loadPackage fails on a package not loaded before: a
\* file of it does not parse or cannot be read.
AstLoadFails ==
    /\ pc = "walk" /\ Len(queue) > 0
    /\ \A p \in scanned : Dir(p) # Dir(Head(queue))
    /\ Fails("load")
    /\ UNCHANGED <<fs, queue, Replace, snap, scanned, passed, hist, nrun, nedit, loop, exec>>

\* processFile when readLines fails.
AstReadFails ==
    /\ pc = "walk" /\ Len(queue) > 0
    /\ loadsPackage(fs, Dir(Head(queue)))
    /\ ~astPlan(fs, Head(queue)).skips
    /\ Fails("read")
    /\ UNCHANGED <<fs, queue, Replace, snap, scanned, passed, hist, nrun, nedit, loop, exec>>

\* processFile when os.WriteFile of the shadow fails.
AstShadowWriteFails ==
    /\ pc = "walk" /\ Len(queue) > 0
    /\ loadsPackage(fs, Dir(Head(queue)))
    /\ \E r \in {astPlan(fs, Head(queue))} :
         /\ ~r.skips
         /\ \E left \in failedWrites(ReadOr(fs, r.shadow), r.content) :
                fs' = WriteFile(fs, r.shadow, left)
    /\ Fails("shadow")
    /\ UNCHANGED <<queue, Replace, snap, scanned, passed, hist, nrun, nedit, loop, exec>>

\* writeOverlay of the AST engine at the end of the walk: the manifest is
\* written when Replace is not empty.
AstWriteOverlay ==
    /\ pc = "walk" /\ Len(queue) = 0
    /\ fs' = IF DOMAIN Replace # {}
             THEN WriteFile(fs, overlayPath(Root), marshalOverlay(Replace))
             ELSE fs
    /\ pc' = "done"
    /\ UNCHANGED <<queue, Replace, err, snap, scanned, passed, hist, nrun, nedit, loop, exec>>

\* writeOverlay when os.WriteFile fails.
AstOverlayWriteFails ==
    /\ pc = "walk" /\ Len(queue) = 0
    /\ DOMAIN Replace # {}
    /\ \E left \in failedWrites(ReadOr(fs, overlayPath(Root)), marshalOverlay(Replace)) :
            fs' = WriteFile(fs, overlayPath(Root), left)
    /\ Fails("overlay")
    /\ UNCHANGED <<queue, Replace, snap, scanned, passed, hist, nrun, nedit, loop, exec>>

NextAst ==
    \/ AstRunGen
    \/ AstMkdirFails
    \/ AstProcessFile
    \/ AstLoadFails
    \/ AstReadFails
    \/ AstShadowWriteFails
    \/ AstWriteOverlay
    \/ AstOverlayWriteFails

SpecAst == InitAst /\ [][NextAst]_vars


(***************************************************************************)
(* Claims about the AST engine, checked under SpecAst.                     *)
(***************************************************************************)
\* C2: at the end of a Run of the AST engine a file is a key of Replace if
\* and only if at least one statement was injected into its shadow.
C2_ReplacedIffInjected ==
    pc = "done" /\ err = "" =>
        \A p \in scanned : p \in DOMAIN Replace <=> astPlan(fs, p).injected > 0

\* The lines of the original that go/printer prints as they are: the lines
\* of code without a comment.
survivingLines(lines) ==
    {n \in 1..Len(lines) : codeOf(lines[n]) # "" /\ Len(lineComments(lines[n], 1)) = 0}

\* C10: in every shadow of the AST engine each surviving line of the
\* original is at its original line number: injectLineDirectives emitted a
\* //line comment before it wherever the lines before it had shifted it.
C10_SurvivorsAtOriginalLine ==
    pc \in {"walk", "done"} =>
        \A k \in DOMAIN Replace :
            \A n \in survivingLines(fs[k]) :
                \E m \in 1..Len(fs[Replace[k]]) :
                    /\ fs[Replace[k]][m] = fs[k][n]
                    /\ ~isLineDirective(fs[Replace[k]][m])
                    /\ nominal(fs[Replace[k]], m) = n

\* The lines of a shadow that hold the check of the directive on line n of
\* the original: its message ends with the location of the directive.
checkAt(shadow, path, n) ==
    {k \in 1..Len(shadow) :
        Index(shadow[k], " at " \o path \o ":" \o ToString(n) \o "\"") > 0}

\* Whether no line from n1 to n2 holds code: the comments on them lie
\* between the same two statements.
sameGap(lines, n1, n2) == \A m \in n1..n2 : codeOf(lines[m]) = ""

\* The first line after n that holds code (0: none).
nextCode(lines, n) ==
    IF \E m \in n + 1..Len(lines) : codeOf(lines[m]) # ""
    THEN CHOOSE m \in n + 1..Len(lines) :
             codeOf(lines[m]) # "" /\ \A j \in n + 1..m - 1 : codeOf(lines[j]) = ""
    ELSE 0

KindExpect == "expect"

scopedKind(s) ==
    IF HasPrefix(s, "@require") THEN KindRequire
    ELSE IF HasPrefix(s, "@ensure") THEN KindEnsure
    ELSE IF HasPrefix(s, "@must") THEN KindMust
    ELSE IF HasPrefix(s, "@expect") THEN KindExpect
    ELSE "nil"

\* A standalone kind's directive: the expression is mandatory.
scopedExprDirective(kind, rest, tp) ==
    IF rest = "" \/ tp.Expr = "" THEN NilDirective
    ELSE [Kind |-> kind, Action |-> "panic", ActionArgs |-> tp.ActionArgs, Expr |-> tp.Expr]

scopedDirectiveOf(s, kind, rest) ==
    IF s = "" \/ kind = "nil" THEN NilDirective
    ELSE IF kind \in {KindRequire, KindEnsure}
         THEN scopedExprDirective(kind, rest, parseTrailingPanic(rest))
    ELSE [Kind |-> kind, Action |-> "panic",
          ActionArgs |-> IF rest = "" THEN <<>> ELSE parsePanicAction(rest),
          Expr |-> ""]

scopedDirectiveFrom(s, kind) ==
    scopedDirectiveOf(s, kind, TrimSpace(From(s, Len("@" \o kind) + 1)))

\* ParseDirective of this engine.
scopedParseDirective(comment) ==
    The({scopedDirectiveFrom(s, scopedKind(s)) : s \in {stripComment(comment)}})

\* Step 1 of processFile: line -> the directive of the last directive
\* comment on it.
scopedCollect(comments) ==
    directivesOf(comments, [k \in DOMAIN comments |-> scopedParseDirective(comments[k].text)])

\* Step 3: the standalone @require / @ensure and the inline @must / @expect.
scopedStandalone(directives, lines) ==
    {n \in DOMAIN directives :
        /\ n <= Len(lines) /\ directives[n].Kind \in {KindRequire, KindEnsure}
        /\ isStandaloneLine(lines[n])}

scopedInline(directives, lines) ==
    {n \in DOMAIN directives :
        /\ n <= Len(lines) /\ directives[n].Kind \in {KindMust, KindExpect}
        /\ ~isStandaloneLine(lines[n])}

\* Whether a line of code opens the body of a function declaration or of
\* a function literal: it has the func keyword and ends with the brace.
opensFunc(c) ==
    /\ HasSuffix(c, "{")
    /\ \E i \in 1..Len(c) :
         /\ StartsAt(c, i, "func")
         /\ (i = 1 \/ ~isIdentChar(Ch(c, i - 1)))
         /\ ~isIdentChar(Ch(c, i + 4))

\* The line on which the block that the last bracket of line n opens is
\* closed (depth: the bracket depth after each line).
closingLine(depth, n) ==
    CHOOSE k \in n + 1..Len(depth) + 1 :
        /\ k = Len(depth) + 1 \/ depth[k] < depth[n]
        /\ \A j \in n + 1..k - 1 : depth[j] >= depth[n]

\* Step 3.5: funcScopes, the bodies in the order ast.Inspect meets them.
funcScopesOf(code, depth) ==
    [k \in 1..Cardinality({n \in 1..Len(code) : opensFunc(code[n])}) |->
        The({[startLine |-> n, endLine |-> closingLine(depth, n)] :
             n \in {Ascending({m \in 1..Len(code) : opensFunc(code[m])})[k]}})]

funcScopesIn(code) ==
    funcScopesOf(code, depthAfter([k \in 1..Len(code) |-> nesting(code[k], 1)]))

funcScopes(lines) == funcScopesIn(fileCode(lines))

\* scopeAt: the index (from 0) of the innermost scope that holds the line,
\* -1 when no scope does.
scopeAt(scopes, lineNum) ==
    IF \A i \in DOMAIN scopes :
           ~(lineNum >= scopes[i].startLine /\ lineNum <= scopes[i].endLine)
    THEN -1
    ELSE (CHOOSE i \in DOMAIN scopes :
            /\ lineNum >= scopes[i].startLine /\ lineNum <= scopes[i].endLine
            /\ \A j \in DOMAIN scopes :
                 lineNum >= scopes[j].startLine /\ lineNum <= scopes[j].endLine =>
                     \/ scopes[j].startLine < scopes[i].startLine
                     \/ (scopes[j].startLine = scopes[i].startLine /\ j >= i)) - 1

\* promoteAssign once varName is found at idx (0: absent) and the next
\* character that is no blank is at pos.
promoteAt(code, idx, pos) ==
    IF idx = 0 THEN code
    ELSE IF /\ pos <= Len(code) /\ Ch(code, pos) = "="
            /\ (pos + 1 > Len(code) \/ Ch(code, pos + 1) # "=")
            /\ (pos = 1 \/ Ch(code, pos - 1) # ":")
         THEN SubSeq(code, 1, pos - 1) \o ":" \o From(code, pos)
    ELSE code

promoteFrom(code, varName, idx) ==
    promoteAt(code, idx, IF idx = 0 THEN 0 ELSE NextNotIn(code, idx + Len(varName), Blank))

\* promoteAssign ensures the assignment containing varName uses := .
promoteAssign(code, varName) == promoteFrom(code, varName, Index(code, varName))

scopedKeyword(d) == IF d.Kind = KindExpect THEN "@expect" ELSE "@must"

scopedVarName(d) == IF d.Kind = KindExpect THEN "__inco_ok" ELSE "__inco_err"

scopedRewritten(rewritten, varName, declared) ==
    IF varName \notin declared THEN promoteAssign(rewritten, varName) ELSE rewritten

\* rewriteInlineLine: the rewritten host line; declared gets varName.
scopedRewriteInlineLine(line, d, declared) ==
    scopedRewritten(replaceLastBlank(stripInlineComment(line, scopedKeyword(d)), scopedVarName(d)),
                    scopedVarName(d), declared)

buildEnsurePanicBody(d, root, path, line) ==
    IF Len(d.ActionArgs) > 0 THEN "panic(" \o d.ActionArgs[1] \o ")"
    ELSE "panic(" \o Quote("ensure violation: " \o d.Expr \o " (at "
                           \o Rel(root, path) \o ":" \o ToString(line) \o ")") \o ")"

\* generateDeferBlock: the deferred check of a standalone @ensure.
generateDeferBlock(d, indent, root, path, line) ==
    <<indent \o "defer func() {",
      indent \o "\tif !(" \o d.Expr \o ") {",
      indent \o "\t\t" \o buildEnsurePanicBody(d, root, path, line),
      indent \o "\t}",
      indent \o "}()">>

scopedInlinePanicBody(d, root, path, line, varName) ==
    IF Len(d.ActionArgs) > 0 THEN "panic(" \o substituteBlank(d.ActionArgs[1], varName) \o ")"
    ELSE IF d.Kind = KindMust THEN "panic(" \o varName \o ")"
    ELSE "panic(" \o Quote("expect violation at " \o Rel(root, path) \o ":"
                           \o ToString(line)) \o ")"

scopedInlineIfBlock(d, indent, root, path, line, varName) ==
    ifBlock(indent,
            IF d.Kind = KindMust THEN varName \o " != nil" ELSE "!" \o varName,
            scopedInlinePanicBody(d, root, path, line, varName))

\* Steps 1 to 3.5 on the lines of a file.
scopedClassified(lines, directives) ==
    [directives |-> directives,
     standalone |-> scopedStandalone(directives, lines),
     inline |-> scopedInline(directives, lines),
     funcScopes |-> funcScopes(lines),
     imports |-> fileImports(lines)]

scopedPrepare(lines) == scopedClassified(lines, scopedCollect(fileComments(lines)))

(***************************************************************************)
(* The files processFile is followed on: a function with three statements, *)
(* the second of them in a nested block or in a function literal.  Every   *)
(* statement is a call, alone or as the host of an inline directive, with  *)
(* the discarded position anywhere on its left-hand side or nowhere.       *)
(***************************************************************************)
ScopedPath == "/r/a.go"

HostForms == {"plain", "blank", "define", "first", "expect", "none"}

hostLine(form, i) ==
    CASE form = "plain" -> "k" \o i \o "()"
      [] form = "blank" -> "_ = f" \o i \o "() // @must"
      [] form = "define" -> "v" \o i \o ", _ := g" \o i \o "() // @must"
      [] form = "first" -> "_, w" \o i \o " = h" \o i \o "() // @must"
      [] form = "expect" -> "e" \o i \o ", _ := m[" \o i \o "] // @expect"
      [] form = "none" -> "f" \o i \o "() // @must"

Nestings == {"block", "literal"}

\* A standalone directive ahead of the statements: none, a @require or an
\* @ensure at the top of the body, or an @ensure outside the function.
Leads == {"none", "require", "ensure", "outside"}

leadLines(lead) ==
    CASE lead = "require" -> <<"\t// @require w1 > 0">>
      [] lead = "ensure" -> <<"\t// @ensure w1 > 0">>
      [] OTHER -> <<>>

scopedText(lead, h1, h2, h3, nest) ==
    <<"package main",
      IF lead = "outside" THEN "// @ensure w1 > 0" ELSE "",
      "func F(m map[int]int, w1, w2, w3 int) {">>
    \o leadLines(lead)
    \o <<"\t" \o hostLine(h1, "1"),
          IF nest = "block" THEN "\tif c() {" ELSE "\tfunc() {",
          "\t\t" \o hostLine(h2, "2"),
          IF nest = "block" THEN "\t}" ELSE "\t}()",
          "\t" \o hostLine(h3, "3"),
          "}">>

ScopedTexts ==
    {scopedText(lead, h1, h2, h3, nest) :
        lead \in Leads, h1 \in HostForms, h2 \in HostForms, h3 \in HostForms,
        nest \in Nestings}

scopedTable == [lines \in ScopedTexts |-> scopedPrepare(lines)]

scopedFile(lines) ==
    IF lines \in DOMAIN scopedTable THEN scopedTable[lines] ELSE scopedPrepare(lines)

InitScoped ==
    /\ fs \in {[p \in {ScopedPath} |-> lines] : lines \in ScopedTexts}
    /\ pc = "process"
    /\ queue = <<ScopedPath>>
    /\ Replace = EmptyMap
    /\ err = ""
    /\ snap = fs
    /\ scanned = {ScopedPath}
    /\ passed = NothingPassed
    /\ hist = <<>>
    /\ nrun = 1
    /\ nedit = 0
    /\ loop = [at |-> "entry", idx |-> 0, output |-> <<>>, prevWasDirective |-> FALSE,
               declared |-> {}, lastScope |-> -2]
    /\ exec = NoExec

\* processFile up to its loop: the directives are collected and
\* classified; the file is left alone when none applies.
ScopedEnter ==
    /\ loop.at = "entry"
    /\ \E f \in {scopedFile(fs[ScopedPath])} :
         IF skipsFile(f.directives, f.standalone, f.inline)
         THEN loop' = [loop EXCEPT !.at = "skipped"]
         ELSE loop' = [loop EXCEPT !.at = "lines", !.idx = 1]
    /\ UNCHANGED <<fs, pc, queue, Replace, err, snap, scanned, passed, hist, nrun, nedit, exec>>

\* One turn of the loop on the line of a standalone directive.
ScopedStandaloneLine ==
    /\ loop.at = "lines" /\ loop.idx <= Len(fs[ScopedPath])
    /\ \E f \in {scopedFile(fs[ScopedPath])} :
         /\ loop.idx \in f.standalone
         /\ \E d \in {f.directives[loop.idx]} :
            \E indent \in {extractIndent(fs[ScopedPath][loop.idx])} :
              loop' = [loop EXCEPT
                  !.output = @ \o <<lineDirective(indent, ScopedPath, loop.idx)>>
                      \o (IF d.Kind = KindEnsure
                          THEN generateDeferBlock(d, indent, Root, ScopedPath, loop.idx)
                          ELSE generateIfBlock(d, indent, Root, ScopedPath, loop.idx)),
                  !.prevWasDirective = TRUE,
                  !.idx = @ + 1]
    /\ UNCHANGED <<fs, pc, queue, Replace, err, snap, scanned, passed, hist, nrun, nedit, exec>>

\* One turn of the loop on the host line of an inline directive.
ScopedInlineLine ==
    /\ loop.at = "lines" /\ loop.idx <= Len(fs[ScopedPath])
    /\ \E f \in {scopedFile(fs[ScopedPath])} :
         /\ loop.idx \notin f.standalone /\ loop.idx \in f.inline
         /\ \E d \in {f.directives[loop.idx]} :
            \E indent \in {extractIndent(fs[ScopedPath][loop.idx])} :
            \E scope \in {scopeAt(f.funcScopes, loop.idx)} :
            \E declared \in {IF scope # loop.lastScope THEN {} ELSE loop.declared} :
              loop' = [loop EXCEPT
                  !.output = @ \o <<lineDirective(indent, ScopedPath, loop.idx),
                                    scopedRewriteInlineLine(fs[ScopedPath][loop.idx], d, declared)>>
                      \o scopedInlineIfBlock(d, indent, Root, ScopedPath, loop.idx,
                                             scopedVarName(d)),
                  !.declared = declared \cup {scopedVarName(d)},
                  !.lastScope = scope,
                  !.prevWasDirective = TRUE,
                  !.idx = @ + 1]
    /\ UNCHANGED <<fs, pc, queue, Replace, err, snap, scanned, passed, hist, nrun, nedit, exec>>

\* One turn of the loop on a line that hosts no directive.
ScopedCopyLine ==
    /\ loop.at = "lines" /\ loop.idx <= Len(fs[ScopedPath])
    /\ \E f \in {scopedFile(fs[ScopedPath])} :
         /\ loop.idx \notin f.standalone /\ loop.idx \notin f.inline
         /\ loop' = [loop EXCEPT
              !.output = @ \o (IF loop.prevWasDirective
                               THEN <<lineDirective(extractIndent(fs[ScopedPath][loop.idx]),
                                                    ScopedPath, loop.idx)>>
                               ELSE <<>>)
                           \o <<fs[ScopedPath][loop.idx]>>,
              !.prevWasDirective = FALSE,
              !.idx = @ + 1]
    /\ UNCHANGED <<fs, pc, queue, Replace, err, snap, scanned, passed, hist, nrun, nedit, exec>>

\* Steps 5 and 6: the imports are added and the shadow is written and
\* registered.
ScopedWriteShadow ==
    /\ loop.at = "lines" /\ loop.idx > Len(fs[ScopedPath])
    /\ \E f \in {scopedFile(fs[ScopedPath])} :
       \E content \in addMissingImports(loop.output, f.imports, f.directives) :
       \E shadow \in {shadowPath(Root, ScopedPath, content)} :
         /\ fs' = WriteFile(fs, shadow, content)
         /\ Replace' = MapPut(Replace, ScopedPath, shadow)
    /\ loop' = [loop EXCEPT !.at = "done"]
    /\ queue' = <<>>
    /\ UNCHANGED <<pc, err, snap, scanned, passed, hist, nrun, nedit, exec>>

NextScoped ==
    \/ ScopedEnter
    \/ ScopedStandaloneLine
    \/ ScopedInlineLine
    \/ ScopedCopyLine
    \/ ScopedWriteShadow

SpecScoped == InitScoped /\ [][NextScoped]_vars

(***************************************************************************)
(* Claims on the text engine with declaration tracking.                    *)
(***************************************************************************)
\* The line of output that follows the line directive of original line n.
hostAt(output, path, n) ==
    output[(CHOOSE m \in 1..Len(output) - 1 :
                TrimSpace(output[m]) = "//line " \o path \o ":" \o ToString(n)) + 1]

\* Whether the line assigns to v on its left-hand side, and with which
\* operator.
assignsTo(line, v) ==
    /\ Index(line, v) > 0 /\ Index(line, "=") > 1
    /\ Index(line, v) < Index(line, "=")
    /\ Ch(line, Index(line, "=") + 1) # "="

declaresVar(line, v) == assignsTo(line, v) /\ Ch(line, Index(line, "=") - 1) = ":"

assignsVar(line, v) == assignsTo(line, v) /\ Ch(line, Index(line, "=") - 1) # ":"

\* Whether the host line of an inline directive has a discarded position.
hasBlank(line, d) == lastBlank(stripInlineComment(line, scopedKeyword(d))) > 0

\* The inline directives of function scope s on variable v whose host
\* line has a discarded position.
inlineOf(f, lines, s, v) ==
    {n \in f.inline :
        /\ scopeAt(f.funcScopes, n) = s
        /\ scopedVarName(f.directives[n]) = v
        /\ hasBlank(lines[n], f.directives[n])}

SyntheticVars == {"__inco_err", "__inco_ok"}

\* C11: in every function scope, the host line of the first inline
\* directive on a synthetic variable declares it with := and the host line
\* of every later one assigns to it with a plain = .
C11_DeclareThenAssign ==
    loop.at = "done" =>
        LET lines == fs[ScopedPath]
            f == scopedFile(lines)
        IN \A v \in SyntheticVars :
           \A s \in {scopeAt(f.funcScopes, n) : n \in f.inline} :
           \A n \in inlineOf(f, lines, s, v) :
               IF \A k \in inlineOf(f, lines, s, v) : n <= k
               THEN declaresVar(hostAt(loop.output, ScopedPath, n), v)
               ELSE assignsVar(hostAt(loop.output, ScopedPath, n), v)

\* Whether the declaration on line d of the shadow is in scope on line m:
\* the block that holds d is not closed before m, and both lines are in
\* the same function.
inScopeAt(depth, scopes, d, m) ==
    /\ d < m
    /\ \A j \in d..m - 1 : depth[j] >= (IF d = 1 THEN 0 ELSE depth[d - 1])
    /\ scopeAt(scopes, d) = scopeAt(scopes, m)

\* C12: in every shadow, each plain assignment to a synthetic variable is
\* preceded by its declaration in the same block or in an enclosing block
\* of the same function.
C12_AssignedWhereDeclared ==
    loop.at = "done" =>
        LET code == fileCode(loop.output)
            depth == depthAfter([k \in 1..Len(code) |-> nesting(code[k], 1)])
            scopes == funcScopesOf(code, depth)
        IN \A v \in SyntheticVars :
           \A m \in 1..Len(code) :
               assignsVar(code[m], v) =>
                   \E d \in 1..m - 1 :
                       declaresVar(code[d], v) /\ inScopeAt(depth, scopes, d, m)

\* C13: the turn of the loop on an inline directive whose host line has no
\* discarded position leaves the host line's code as the last line of the
\* output (no conditional after it), and marks no variable as declared:
\* after the first inline directive of the file nothing is declared.
C13_NoBlankIsDropped ==
    loop.at = "lines" /\ loop.idx > 1 =>
        LET lines == fs[ScopedPath]
            f == scopedFile(lines)
            n == loop.idx - 1
        IN n \in f.inline /\ ~hasBlank(lines[n], f.directives[n]) =>
               /\ loop.output[Len(loop.output)]
                      = stripInlineComment(lines[n], scopedKeyword(f.directives[n]))
               /\ (\A k \in f.inline : k >= n) => loop.declared = {}

\* The lines of the standalone @ensure directives that lie in no function.
outsideEnsures(lines) ==
    {n \in scopedFile(lines).standalone :
        /\ scopedFile(lines).directives[n].Kind = KindEnsure
        /\ scopeAt(scopedFile(lines).funcScopes, n) = -1}

\* C17: on a file with an @ensure outside every function processFile ends
\* with a fatal error: it neither returns without a shadow nor writes one.
C17_OutsideEnsureIsFatal ==
    outsideEnsures(fs[ScopedPath]) # {} =>
        /\ loop.at \notin {"skipped", "done"}
        /\ loop.at = "lines" /\ loop.idx > Len(fs[ScopedPath]) => err # ""

(***************************************************************************)
(* engine.go: processFile followed turn by turn of its loop (208-236), on  *)
(* files whose three statements are drawn from the forms a directive and   *)
(* its host line can take.                                                 *)
(***************************************************************************)
LinesPath == "/r/a.go"

LineForms ==
    {"plain", "require", "block", "must", "quoted", "ensure", "lonemust", "trailing", "double"}

\* Statement i of the body in a given form: a call; a @require on a line of
\* its own, as a line comment or as a block comment ahead of a call; an
\* inline @must / @ensure, the right-hand side with or without a string
\* literal that holds an underscore; a @must on a line of its own; a
\* @require behind a call; two @require comments on one line of their own.
formLine(form, i) ==
    CASE form = "plain" -> "k" \o i \o "(x)"
      [] form = "require" -> "// @require x > " \o i
      [] form = "block" -> "/* @require x > " \o i \o " */ g" \o i \o "(x)"
      [] form = "must" -> "v" \o i \o ", _ := h" \o i \o "(x) // @must"
      [] form = "quoted" -> "u" \o i \o ", _ := p" \o i \o "(\"a _ b\") // @must"
      [] form = "ensure" -> "w" \o i \o ", _ := m[" \o i \o "] // @ensure"
      [] form = "lonemust" -> "// @must panic(errors.New(\"e" \o i \o "\"))"
      [] form = "trailing" ->
            "q" \o i \o "(x) // @require x > " \o i \o " panic(fmt.Sprint(x))"
      [] form = "double" -> "/* @require x > " \o i \o " */ // @require x < 9"

\* The file either imports nothing or imports fmt and uses it.
linesText(imp, f1, f2, f3) ==
    <<"package main",
      IF imp THEN "import \"fmt\"" ELSE "",
      "func F(m map[int]int, x int) {",
      "\t" \o formLine(f1, "1"),
      "\t" \o formLine(f2, "2"),
      "\t" \o formLine(f3, "3"),
      IF imp THEN "\tfmt.Println(x)" ELSE "\treturn",
      "}">>

LinesTexts ==
    {linesText(imp, f1, f2, f3) :
        imp \in BOOLEAN, f1 \in LineForms, f2 \in LineForms, f3 \in LineForms}

\* Steps 1 to 3 of processFile on the lines of a file.
linesClassified(lines, directives) ==
    [directives |-> directives,
     standalone |-> standaloneLines(directives, lines),
     inline |-> inlineLines(directives, lines),
     imports |-> fileImports(lines)]

linesPrepare(lines) == linesClassified(lines, collectDirectives(fileComments(lines)))

linesTable == [lines \in LinesTexts |-> linesPrepare(lines)]

linesFile(lines) ==
    IF lines \in DOMAIN linesTable THEN linesTable[lines] ELSE linesPrepare(lines)

InitLines ==
    /\ fs \in {[p \in {LinesPath} |-> lines] : lines \in LinesTexts}
    /\ pc = "process"
    /\ queue = <<LinesPath>>
    /\ Replace = EmptyMap
    /\ err = ""
    /\ snap = fs
    /\ scanned = {LinesPath}
    /\ passed = NothingPassed
    /\ hist = <<>>
    /\ nrun = 1
    /\ nedit = 0
    /\ loop = [at |-> "collect", idx |-> 0, output |-> <<>>, prevWasDirective |-> FALSE,
               standalone |-> {}, inline |-> {}]
    /\ exec = NoExec

\* Steps 1 to 3: the directives are collected and classified; processFile
\* returns when none was recognised or none applies to its line.
LinesClassify ==
    /\ loop.at = "collect"
    /\ \E f \in {linesFile(fs[LinesPath])} :
         loop' = [loop EXCEPT
             !.at = IF skipsFile(f.directives, f.standalone, f.inline)
                    THEN "returned" ELSE "loop",
             !.idx = 1,
             !.standalone = f.standalone,
             !.inline = f.inline]
    /\ UNCHANGED <<fs, pc, queue, Replace, err, snap, scanned, passed, hist, nrun, nedit, exec>>

\* Step 4 on the line of a standalone directive (214-219).
LinesStandalone ==
    /\ loop.at = "loop" /\ loop.idx <= Len(fs[LinesPath])
    /\ loop.idx \in loop.standalone
    /\ \E f \in {linesFile(fs[LinesPath])} :
       \E indent \in {extractIndent(fs[LinesPath][loop.idx])} :
         loop' = [loop EXCEPT
             !.output = @ \o <<lineDirective(indent, LinesPath, loop.idx)>>
                 \o generateIfBlock(f.directives[loop.idx], indent, Root, LinesPath, loop.idx),
             !.prevWasDirective = TRUE,
             !.idx = @ + 1]
    /\ UNCHANGED <<fs, pc, queue, Replace, err, snap, scanned, passed, hist, nrun, nedit, exec>>

\* Step 4 on the host line of an inline directive (220-227).
LinesInline ==
    /\ loop.at = "loop" /\ loop.idx <= Len(fs[LinesPath])
    /\ loop.idx \notin loop.standalone /\ loop.idx \in loop.inline
    /\ \E f \in {linesFile(fs[LinesPath])} :
       \E indent \in {extractIndent(fs[LinesPath][loop.idx])} :
       \E d \in {f.directives[loop.idx]} :
         loop' = [loop EXCEPT
             !.output = @ \o <<lineDirective(indent, LinesPath, loop.idx),
                               rewriteInlineLine(fs[LinesPath][loop.idx], d)>>
                 \o generateInlineIfBlock(d, indent, Root, LinesPath, loop.idx,
                                          inlineVarName(d)),
             !.prevWasDirective = TRUE,
             !.idx = @ + 1]
    /\ UNCHANGED <<fs, pc, queue, Replace, err, snap, scanned, passed, hist, nrun, nedit, exec>>

\* Step 4 on any other line (228-235).
LinesCopy ==
    /\ loop.at = "loop" /\ loop.idx <= Len(fs[LinesPath])
    /\ loop.idx \notin loop.standalone /\ loop.idx \notin loop.inline
    /\ loop' = [loop EXCEPT
         !.output = @ \o (IF loop.prevWasDirective
                          THEN <<lineDirective(extractIndent(fs[LinesPath][loop.idx]),
                                               LinesPath, loop.idx)>>
                          ELSE <<>>)
                      \o <<fs[LinesPath][loop.idx]>>,
         !.prevWasDirective = FALSE,
         !.idx = @ + 1]
    /\ UNCHANGED <<fs, pc, queue, Replace, err, snap, scanned, passed, hist, nrun, nedit, exec>>

\* Steps 5 and 6: addMissingImports on the joined output and all the
\* directives of the file, then writeShadow.
LinesWriteShadow ==
    /\ loop.at = "loop" /\ loop.idx > Len(fs[LinesPath])
    /\ \E f \in {linesFile(fs[LinesPath])} :
       \E content \in addMissingImports(loop.output, f.imports, f.directives) :
       \E shadow \in {shadowPath(Root, LinesPath, content)} :
         /\ fs' = WriteFile(fs, shadow, content)
         /\ Replace' = MapPut(Replace, LinesPath, shadow)
    /\ loop' = [loop EXCEPT !.at = "written"]
    /\ queue' = <<>>
    /\ UNCHANGED <<pc, err, snap, scanned, passed, hist, nrun, nedit, exec>>

NextLines ==
    \/ LinesClassify
    \/ LinesStandalone
    \/ LinesInline
    \/ LinesCopy
    \/ LinesWriteShadow

SpecLines == InitLines /\ [][NextLines]_vars

(***************************************************************************)
(* Properties of processFile in engine.go, turn by turn.                   *)
(***************************************************************************)
\* The line the last turn of the loop was on (0 before the first turn).
turnedLine == IF loop.at = "loop" THEN loop.idx - 1 ELSE 0

\* The rewritten host line that the turn on an inline directive has put
\* into the output, ahead of the three lines of its conditional.
rewrittenHost == loop.output[Len(loop.output) - 3]

\* The position of the assignment operator of a statement (0: none).
assignAt(code) ==
    IF Index(code, ":=") > 0 THEN Index(code, ":=") ELSE Index(code, " = ")

\* The position of the last blank identifier on the left-hand side (0: none).
lhsBlank(code) ==
    CHOOSE i \in 0..Len(code) :
        /\ i # 0 => i < assignAt(code) /\ standaloneBlank(code, i)
        /\ \A k \in i + 1..assignAt(code) - 1 : ~standaloneBlank(code, k)

\* C14: the rewritten host line of an inline directive is the code of the
\* host line with the last blank identifier of the left-hand side replaced
\* by the synthetic variable, and every other character as it was.
C14_OnlyLhsBlankRenamed ==
    turnedLine \in loop.inline =>
        LET line == fs[LinesPath][turnedLine]
            d == linesFile(fs[LinesPath]).directives[turnedLine]
            code == stripInlineComment(line, inlineKeyword(d))
        IN rewrittenHost = replaceAt(code, inlineVarName(d), lhsBlank(code))

\* C18: once processFile has classified the directives of a file, every
\* recognised directive is in exactly one class, and the class is decided
\* by the host line alone: standalone if and only if the trimmed host line
\* begins with a comment delimiter, inline otherwise, whatever the keyword.
C18_ClassifiedByHostLine ==
    loop.at # "collect" =>
        LET lines == fs[LinesPath]
        IN \A n \in DOMAIN linesFile(lines).directives :
              /\ n \in loop.standalone <=> isStandaloneLine(lines[n])
              /\ n \in loop.inline <=> ~isStandaloneLine(lines[n])

\* Whether the loop of processFile has passed the last line of the file.
loopOver == loop.at \in {"loop", "written"} /\ loop.idx > Len(fs[LinesPath])

\* Whether the elements of a occur in b, in the order of a.
RECURSIVE occursInOrder(_, _)
occursInOrder(a, b) ==
    IF a = <<>> THEN TRUE
    ELSE IF b = <<>> THEN FALSE
    ELSE IF a[1] = b[1] THEN occursInOrder(Tail(a), Tail(b))
    ELSE occursInOrder(a, Tail(b))

\* The code tokens of a line, the blank identifier apart.
codeTokens(line) == Range(Split(codeOf(line), " ")) \ {"", "_"}

\* The lines of a file whose number is not in hosts, in their order.
RECURSIVE linesOutside(_, _, _)
linesOutside(lines, hosts, n) ==
    IF n > Len(lines) THEN <<>>
    ELSE (IF n \in hosts THEN <<>> ELSE <<lines[n]>>) \o linesOutside(lines, hosts, n + 1)

\* C19: in the output that processFile has assembled, the lines that host
\* no directive appear verbatim and in their order, and every code token of
\* every line of the original is still there.
C19_NoCodeRemoved ==
    loopOver =>
        LET lines == fs[LinesPath]
            hosts == DOMAIN linesFile(lines).directives
        IN /\ occursInOrder(linesOutside(lines, hosts, 1), loop.output)
           /\ \A n \in 1..Len(lines) : \A t \in codeTokens(lines[n]) :
                 \E k \in 1..Len(loop.output) : Index(loop.output[k], t) > 0

\* The packages that the shadow of the file imports and the original does
\* not.
addedImports ==
    {imp.path : imp \in Range(fileImports(fs[Replace[LinesPath]]))}
        \ {imp.path : imp \in Range(fileImports(fs[LinesPath]))}

\* The package names that the directives injected into the shadow refer to.
injectedPackages ==
    neededPackages([n \in loop.standalone \cup loop.inline |->
                       linesFile(fs[LinesPath]).directives[n]])

\* C20: every import that addMissingImports has added to a shadow is the
\* allow-listed path of a package name that an injected directive refers to
\* and that the original file does not import.
C20_ImportsOnlyForInjected ==
    loop.at = "written" =>
        \A path \in addedImports :
            \E pkg \in injectedPackages :
                /\ pkg \in DOMAIN stdlibPackages /\ stdlibPackages[pkg] = path
                /\ pkg \notin importedNames(fileImports(fs[LinesPath]))

\* The directive comments of a file whose keyword fits the form of the host
\* line: @require on a line that begins with a comment, @must and @ensure
\* behind code.
fittingComments(lines) ==
    {k \in DOMAIN fileComments(lines) :
        LET d == ParseDirective(fileComments(lines)[k].text)
            host == lines[fileComments(lines)[k].line]
        IN  \/ d.Kind = KindRequire /\ isStandaloneLine(host)
            \/ d.Kind \in {KindMust, KindEnsure} /\ ~isStandaloneLine(host)}

\* The injected check blocks of the output: the lines that open one.
injectedBlocks(output) ==
    {k \in DOMAIN output : HasPrefix(TrimSpace(output[k]), "if ")}

\* C29: every recognised directive comment whose keyword fits its host line
\* yields exactly one injected check block in the shadow, also when two
\* directive comments start on the same source line.
C29_OneBlockPerDirective ==
    loopOver =>
        Cardinality(injectedBlocks(loop.output)) = Cardinality(fittingComments(fs[LinesPath]))

\* C29 for files with at most one directive comment on a line.
C29_OneBlockPerDirectiveLine ==
    loopOver /\ (\A i, j \in fittingComments(fs[LinesPath]) :
                    fileComments(fs[LinesPath])[i].line = fileComments(fs[LinesPath])[j].line
                    => i = j) =>
        Cardinality(injectedBlocks(loop.output)) = Cardinality(fittingComments(fs[LinesPath]))

(***************************************************************************)
(* The shadow of a function with standalone @ensure directives, and one    *)
(* invocation of the function followed statement by statement: a deferred  *)
(* function runs at the exit of the invocation if and only if the          *)
(* invocation has executed its defer statement.                            *)
(***************************************************************************)
StmtForms == {"call", "guard", "ensure", "nested", "must"}

\* Statement i of the body: a call; a conditional return; a standalone
\* @ensure in the body or in a nested block; the host of an inline @must.
stmtLines(form, i) ==
    CASE form = "call" -> <<"\tk" \o i \o "()">>
      [] form = "guard" -> <<"\tif c" \o i \o "() {", "\t\treturn", "\t}">>
      [] form = "ensure" -> <<"\t// @ensure r > " \o i>>
      [] form = "nested" -> <<"\tif c" \o i \o "() {", "\t\t// @ensure r > " \o i, "\t}">>
      [] form = "must" -> <<"\t_ = f" \o i \o "() // @must">>

execText(s1, s2, s3) ==
    <<"package main", "", "func F(r int) {">>
    \o stmtLines(s1, "1") \o stmtLines(s2, "2") \o stmtLines(s3, "3")
    \o <<"}">>

ExecTexts == {execText(s1, s2, s3) : s1 \in StmtForms, s2 \in StmtForms, s3 \in StmtForms}

InitExec ==
    /\ fs \in {[p \in {ScopedPath} |-> lines] : lines \in ExecTexts}
    /\ pc = "process"
    /\ queue = <<ScopedPath>>
    /\ Replace = EmptyMap
    /\ err = ""
    /\ snap = fs
    /\ scanned = {ScopedPath}
    /\ passed = NothingPassed
    /\ hist = <<>>
    /\ nrun = 1
    /\ nedit = 0
    /\ loop = [at |-> "entry", idx |-> 0, output |-> <<>>, prevWasDirective |-> FALSE,
               declared |-> {}, lastScope |-> -2]
    /\ exec = NoExec

\* What the line of a shadow is to the execution of the function.
stmtKind(t) ==
    IF HasPrefix(t, "//") THEN "comment"
    ELSE IF HasPrefix(t, "defer func() {") THEN "defer"
    ELSE IF HasPrefix(t, "if ") THEN "if"
    ELSE IF t = "return" THEN "return"
    ELSE IF HasPrefix(t, "panic(") THEN "panic"
    ELSE IF HasPrefix(t, "}") THEN "close"
    ELSE "stmt"

\* The line that closes the block opened on line k: the next line with the
\* indentation of line k that begins with a closing brace.
closeOf(code, k) ==
    CHOOSE j \in k + 1..Len(code) :
        /\ extractIndent(code[j]) = extractIndent(code[k]) /\ HasPrefix(TrimSpace(code[j]), "}")
        /\ \A l \in k + 1..j - 1 :
              ~(extractIndent(code[l]) = extractIndent(code[k])
                /\ HasPrefix(TrimSpace(code[l]), "}"))

\* The line of the shadow that opens the body of F.
bodyLine(code) == CHOOSE k \in 1..Len(code) : HasPrefix(code[k], "func F(")

\* The shadow that the go command compiles in place of the file.
shadowCode == fs[Replace[ScopedPath]]

\* The kind of the statement the execution is at.
atKind == stmtKind(TrimSpace(shadowCode[exec.ip]))

\* F is called.
ExecCall ==
    /\ loop.at = "done" /\ exec.at = "none"
    /\ exec' = [at |-> "body", ip |-> bodyLine(shadowCode) + 1, defers |-> <<>>,
                ran |-> {}, panicking |-> FALSE]
    /\ UNCHANGED <<fs, pc, queue, Replace, err, snap, scanned, passed, hist, nrun, nedit, loop>>

\* A comment, a call, an assignment or the end of a nested block.
ExecStmt ==
    /\ exec.at = "body"
    /\ \/ atKind \in {"comment", "stmt"}
       \/ atKind = "close" /\ extractIndent(shadowCode[exec.ip]) # ""
    /\ exec' = [exec EXCEPT !.ip = @ + 1]
    /\ UNCHANGED <<fs, pc, queue, Replace, err, snap, scanned, passed, hist, nrun, nedit, loop>>

\* An if statement: its condition holds or not.
ExecIf ==
    /\ exec.at = "body" /\ atKind = "if"
    /\ \E taken \in BOOLEAN :
         exec' = [exec EXCEPT !.ip = IF taken THEN @ + 1 ELSE closeOf(shadowCode, @) + 1]
    /\ UNCHANGED <<fs, pc, queue, Replace, err, snap, scanned, passed, hist, nrun, nedit, loop>>

\* A defer statement: the function literal is pushed, not run.
ExecDefer ==
    /\ exec.at = "body" /\ atKind = "defer"
    /\ exec' = [exec EXCEPT !.defers = Append(@, exec.ip),
                            !.ip = closeOf(shadowCode, @) + 1]
    /\ UNCHANGED <<fs, pc, queue, Replace, err, snap, scanned, passed, hist, nrun, nedit, loop>>

\* A return statement, or the end of the body.
ExecReturn ==
    /\ exec.at = "body"
    /\ \/ atKind = "return"
       \/ atKind = "close" /\ extractIndent(shadowCode[exec.ip]) = ""
    /\ exec' = [exec EXCEPT !.at = "exiting"]
    /\ UNCHANGED <<fs, pc, queue, Replace, err, snap, scanned, passed, hist, nrun, nedit, loop>>

\* A panic.
ExecPanic ==
    /\ exec.at = "body" /\ atKind = "panic"
    /\ exec' = [exec EXCEPT !.at = "exiting", !.panicking = TRUE]
    /\ UNCHANGED <<fs, pc, queue, Replace, err, snap, scanned, passed, hist, nrun, nedit, loop>>

\* On the way out the deferred functions run, the last pushed first.
ExecDeferred ==
    /\ exec.at = "exiting" /\ Len(exec.defers) > 0
    /\ exec' = [exec EXCEPT !.ran = @ \cup {exec.defers[Len(exec.defers)]},
                            !.defers = SubSeq(@, 1, Len(@) - 1)]
    /\ UNCHANGED <<fs, pc, queue, Replace, err, snap, scanned, passed, hist, nrun, nedit, loop>>

\* The invocation is over.
ExecExit ==
    /\ exec.at = "exiting" /\ Len(exec.defers) = 0
    /\ exec' = [exec EXCEPT !.at = "exited"]
    /\ UNCHANGED <<fs, pc, queue, Replace, err, snap, scanned, passed, hist, nrun, nedit, loop>>

NextExec ==
    \/ ScopedEnter
    \/ ScopedStandaloneLine
    \/ ScopedInlineLine
    \/ ScopedCopyLine
    \/ ScopedWriteShadow
    \/ ExecCall
    \/ ExecStmt
    \/ ExecIf
    \/ ExecDefer
    \/ ExecReturn
    \/ ExecPanic
    \/ ExecDeferred
    \/ ExecExit

SpecExec == InitExec /\ [][NextExec]_vars

\* The line of the shadow with the defer statement of the @ensure on line n
\* of the original: the line after the line directive of line n.
deferOf(code, n) ==
    1 + CHOOSE k \in 1..Len(code) :
            TrimSpace(code[k]) = lineDirective("", ScopedPath, n)

\* The lines of the standalone @ensure directives of a file.
ensureLines(lines) ==
    {n \in scopedFile(lines).standalone : scopedFile(lines).directives[n].Kind = KindEnsure}

\* C16: when an invocation of the host function is over, by a return or by
\* a panic, the check of every standalone @ensure of the function has been
\* executed.
C16_EnsureRunsOnEveryExit ==
    exec.at = "exited" =>
        \A n \in ensureLines(fs[ScopedPath]) : deferOf(shadowCode, n) \in exec.ran

(***************************************************************************)
(* directive.go: ParseDirective and splitTopLevel applied to comments and  *)
(* argument lists drawn from the forms their grammar distinguishes.        *)
(***************************************************************************)
CommentMarkers == {"// ", "//"}

\* Keywords, complete or as the beginning of a longer word, and words that
\* are no keyword.
CommentWords ==
    {"@require", "@must", "@ensure", "@requirement", "@mustard", "@unknown", "regular"}

\* Bodies: none, an expression, an expression with a panic action (bare,
\* with a message, with a message that itself holds the text of a panic
\* call, with two arguments), a panic action alone, and another action.
CommentBodies ==
    {"", "x > 0", "x > 0 panic", "x > 0 panic(\"bad\")", "x > 0 panic(\"a panic(b)\")",
     "x > 0 panic(f(x), \"m\")", "panic", "panic(\"m\")", "return", "panic(\"m\") x"}

commentText(marker, word, body) ==
    marker \o word \o (IF body = "" THEN "" ELSE " " \o body)

ParseComments ==
    {commentText(marker, word, body) :
        marker \in CommentMarkers, word \in CommentWords, body \in CommentBodies}

\* Arguments: identifiers, calls, composite literals and string literals,
\* among them literals with a comma, an escaped quote and a final escaped
\* backslash.
SplitArgs == {"a", "f(a, b)", "[2]int{1, 2}", "\"x, y\"", "\"q\\\"r\"", "\"a\\\\\""}

SplitInputs ==
    SplitArgs \cup {a \o ", " \o b : a \in SplitArgs, b \in SplitArgs}

InitParse ==
    /\ fs = [p \in {} |-> <<>>]
    /\ pc = "idle"
    /\ queue = <<>>
    /\ Replace = EmptyMap
    /\ err = ""
    /\ snap = fs
    /\ scanned = {}
    /\ passed = NothingPassed
    /\ hist = <<>>
    /\ nrun = 0
    /\ nedit = 0
    /\ loop \in {[at |-> "comment", text |-> c] : c \in ParseComments}
                \cup {[at |-> "args", text |-> s] : s \in SplitInputs}
    /\ exec = NoExec

\* ParseDirective on the text of a comment.
ParseComment ==
    /\ loop.at = "comment"
    /\ loop' = [at |-> "parsed", text |-> loop.text, d |-> ParseDirective(loop.text)]
    /\ UNCHANGED <<fs, pc, queue, Replace, err, snap, scanned, passed, hist, nrun, nedit, exec>>

\* splitTopLevel on the text between the parentheses of an action.
SplitTopLevel ==
    /\ loop.at = "args"
    /\ loop' = [at |-> "split", text |-> loop.text, parts |-> splitTopLevel(loop.text)]
    /\ UNCHANGED <<fs, pc, queue, Replace, err, snap, scanned, passed, hist, nrun, nedit, exec>>

NextParse ==
    \/ ParseComment
    \/ SplitTopLevel

SpecParse == InitParse /\ [][NextParse]_vars

(***************************************************************************)
(* Properties of the directive lexer.                                      *)
(***************************************************************************)
\* The positions of s from i on that are at top level: outside every
\* parenthesis, bracket and brace and outside every double-quoted string,
\* in which a backslash escapes the character after it.
RECURSIVE topLevelFrom(_, _, _, _)
topLevelFrom(s, i, depth, inStr) ==
    IF i > Len(s) THEN {}
    ELSE IF inStr
         THEN IF Ch(s, i) = "\\" THEN topLevelFrom(s, i + 2, depth, TRUE)
              ELSE topLevelFrom(s, i + 1, depth, Ch(s, i) # "\"")
    ELSE (IF depth = 0 THEN {i} ELSE {})
         \cup topLevelFrom(s, i + 1,
                           IF Ch(s, i) \in {"(", "[", "{"} THEN depth + 1
                           ELSE IF Ch(s, i) \in {")", "]", "}"} THEN depth - 1
                           ELSE depth,
                           Ch(s, i) = "\"")

topLevel(s) == topLevelFrom(s, 1, 0, FALSE)

\* The body of a comment that begins with the word @require.
requireBody(text) ==
    IF HasPrefix(stripComment(text), "@require ")
    THEN TrimSpace(From(stripComment(text), Len("@require") + 1))
    ELSE ""

\* The top-level occurrences of the text that opens a panic action whose
\* call ends the body.
panicCalls(rest) ==
    {i \in topLevel(rest) :
        /\ StartsAt(rest, i, " panic(")
        /\ parseActionArgs(From(rest, i + Len(" panic"))).ok
        /\ TrimSpace(parseActionArgs(From(rest, i + Len(" panic"))).remaining) = ""}

\* C21: the directive of a @require whose body ends with a panic call at
\* top level has the trimmed text before the rightmost such call as its
\* expression and the arguments of that call as its action arguments.
C21_SplitAtTopLevelPanic ==
    loop.at = "parsed" /\ panicCalls(requireBody(loop.text)) # {} =>
        LET rest == requireBody(loop.text)
            idx == CHOOSE i \in panicCalls(rest) : \A j \in panicCalls(rest) : j <= i
        IN /\ loop.d.Expr = TrimSpace(SubSeq(rest, 1, idx - 1))
           /\ loop.d.ActionArgs = parseActionArgs(From(rest, idx + Len(" panic"))).args

\* Whether the text after the keyword fits the grammar of the keyword.
fitsGrammar(kw, rest) ==
    IF kw = "@require" THEN rest # ""
    ELSE \/ rest \in {"", "panic"}
         \/ /\ HasPrefix(rest, "panic(")
            /\ parseActionArgs(From(rest, Len("panic") + 1)).ok
            /\ TrimSpace(parseActionArgs(From(rest, Len("panic") + 1)).remaining) = ""

\* Whether a comment is a well-formed directive: a keyword as a complete
\* word, followed by a body of its grammar.
wellFormedDirective(text) ==
    \E kw \in {"@require", "@must", "@ensure"} :
        /\ HasPrefix(stripComment(text), kw)
        /\ \/ Len(stripComment(text)) = Len(kw)
           \/ Ch(stripComment(text), Len(kw) + 1) \in Blank
        /\ fitsGrammar(kw, TrimSpace(From(stripComment(text), Len(kw) + 1)))

\* C22: ParseDirective returns nil for every comment that is not a
\* well-formed directive.
C22_IllFormedIsNil ==
    loop.at = "parsed" /\ ~wellFormedDirective(loop.text) => loop.d = NilDirective

\* The pieces of s between the cuts, each trimmed, the last one left out
\* when it is empty.
piecesAt(s, cuts) ==
    LET bounds == <<0>> \o Ascending(cuts) \o <<Len(s) + 1>>
        all == [k \in 1..Len(bounds) - 1 |->
                   TrimSpace(SubSeq(s, bounds[k] + 1, bounds[k + 1] - 1))]
    IN IF all[Len(all)] = "" THEN SubSeq(all, 1, Len(all) - 1) ELSE all

\* C23: splitTopLevel splits at exactly the commas at top level.
C23_SplitsAtTopLevelCommas ==
    loop.at = "split" =>
        loop.parts = piecesAt(loop.text, {i \in topLevel(loop.text) : Ch(loop.text, i) = ","})

(***************************************************************************)
(* typecheck.go: generateRequire applied to the directives a @require can  *)
(* be, with and without a resolver, in the function F(x int).              *)
(***************************************************************************)
\* Expressions: constants that fold to false and to true, expressions of the
\* parameter, an expression of an unknown name, one that does not parse,
\* and none.
RequireExprs ==
    {"false", "true", "1 > 2", "2 > 1", "3 == 3", "3 != 3", "0 < 0", "x > 0", "x != 0",
     "x > 0 && false", "y > 0", "(x > 0", ""}

RequireMessages == {"", "small"}

RequireLines == 4..6

RequireParams == <<[name |-> "x", type |-> "int"]>>

RequireDirectives ==
    {[Kind |-> KindRequire, ND |-> FALSE, Vars |-> <<>>, Expr |-> e, Message |-> m] :
        e \in RequireExprs, m \in RequireMessages}
    \cup {[Kind |-> KindRequire, ND |-> TRUE, Vars |-> <<"x">>, Expr |-> "", Message |-> ""]}

InitRequire ==
    /\ fs = [p \in {"/r/a.go"} |-> AstRequire]
    /\ pc = "process"
    /\ queue = <<"/r/a.go">>
    /\ Replace = EmptyMap
    /\ err = ""
    /\ snap = fs
    /\ scanned = {"/r/a.go"}
    /\ passed = NothingPassed
    /\ hist = <<>>
    /\ nrun = 1
    /\ nedit = 0
    /\ loop \in {[at |-> "directive", d |-> d, resolver |-> r, line |-> n] :
                    d \in RequireDirectives, r \in BOOLEAN, n \in RequireLines}
    /\ exec = NoExec

\* generateRequire on the directive: the statements it returns and what it
\* writes to os.Stderr; it returns no error.
GenerateRequire ==
    /\ loop.at = "directive"
    /\ \E loc \in {"/r/a.go:" \o ToString(loop.line)} :
         loop' = [at |-> "generated", d |-> loop.d, resolver |-> loop.resolver,
                  line |-> loop.line,
                  stmts |-> generateRequire(loop.d, loc, RequireParams, fs["/r/a.go"]),
                  stderr |-> requireStderr(loop.d, loc, RequireParams, loop.resolver)]
    /\ UNCHANGED <<fs, pc, queue, Replace, err, snap, scanned, passed, hist, nrun, nedit, exec>>

NextRequire ==
    \/ GenerateRequire

SpecRequire == InitRequire /\ [][NextRequire]_vars

\* Whether generateRequire has written the warning of an expression that
\* is always false.
warned ==
    \E k \in DOMAIN loop.stderr : Index(loop.stderr[k], "is always false") > 0

\* C24: whenever generateRequire has written the 'always false' warning for
\* a directive, it has returned the runtime check of that directive, the
\* statement `if !(expr) { panic(...) }`, and Run has no error.
C24_WarningNeverReplacesCheck ==
    loop.at = "generated" /\ warned =>
        /\ Len(loop.stmts) = 1
        /\ loop.stmts[1].lines[1] = "if !(" \o loop.d.Expr \o ") {"
        /\ HasPrefix(loop.stmts[1].lines[2], "\tpanic(")
        /\ err = ""

\* A directive whose expression is always false, warned about and checked.
C24_Witness ==
    /\ loop.at = "generated" /\ warned
    /\ loop.d.Expr = "1 > 2" /\ Len(loop.stmts) = 1

(***************************************************************************)
(* typecheck.go: the zero-value predicates.  A types.Type is a record of   *)
(* its kind k, its name, the path of its package (named types), its        *)
(* constraint (type parameters), its length (arrays) and its component     *)
(* types: the element, key and element, the field types, or the            *)
(* underlying type of a named type.                                        *)
(***************************************************************************)
mkType(k, name, pkg, con, len, elems) ==
    [k |-> k, name |-> name, pkg |-> pkg, con |-> con, len |-> len, elems |-> elems]

NilType == mkType("nil", "", "", "", 0, <<>>)

BasicType(name) == mkType("basic", name, "", "", 0, <<>>)

PointerType(elem) == mkType("pointer", "", "", "", 0, <<elem>>)

SliceType(elem) == mkType("slice", "", "", "", 0, <<elem>>)

ArrayType(len, elem) == mkType("array", "", "", "", len, <<elem>>)

MapType(key, elem) == mkType("map", "", "", "", 0, <<key, elem>>)

ChanType(elem) == mkType("chan", "", "", "", 0, <<elem>>)

SignatureType == mkType("signature", "", "", "", 0, <<>>)

InterfaceType == mkType("interface", "", "", "", 0, <<>>)

StructType(fields) == mkType("struct", "", "", "", 0, fields)

NamedType(pkg, name, under) == mkType("named", name, pkg, "", 0, <<under>>)

TypeParam(name, con) == mkType("typeparam", name, "", con, 0, <<>>)

\* typ.Underlying()
Underlying(t) == IF t.k = "named" THEN t.elems[1] ELSE t

\* t.Info() of a basic type, as the flag the switches test.
basicInfo(name) ==
    IF name = "string" THEN "string"
    ELSE IF name \in IntegerTypes THEN "integer"
    ELSE IF name \in {"float32", "float64"} THEN "float"
    ELSE IF name \in {"complex64", "complex128"} THEN "complex"
    ELSE IF name = "bool" THEN "boolean"
    ELSE ""

\* types.Comparable
RECURSIVE Comparable(_)
Comparable(t) ==
    CASE t.k \in {"basic", "pointer", "chan", "interface"} -> TRUE
      [] t.k \in {"slice", "map", "signature", "nil"} -> FALSE
      [] t.k \in {"struct", "array"} -> \A i \in DOMAIN t.elems : Comparable(t.elems[i])
      [] t.k = "named" -> Comparable(t.elems[1])
      [] t.k = "typeparam" -> t.con = "comparable"

\* The name of a package: the last segment of its path.
pkgName(path) == Split(path, "/")[Len(Split(path, "/"))]

\* types.TypeString(typ, nil): named types qualified by the package path.
RECURSIVE TypeString(_)
TypeString(t) ==
    CASE t.k = "named" -> (IF t.pkg = "" THEN "" ELSE t.pkg \o ".") \o t.name
      [] t.k \in {"basic", "typeparam"} -> t.name
      [] t.k = "pointer" -> "*" \o TypeString(t.elems[1])
      [] t.k = "slice" -> "[]" \o TypeString(t.elems[1])
      [] t.k = "array" -> "[" \o ToString(t.len) \o "]" \o TypeString(t.elems[1])
      [] t.k = "map" -> "map[" \o TypeString(t.elems[1]) \o "]" \o TypeString(t.elems[2])
      [] t.k = "chan" -> "chan " \o TypeString(t.elems[1])
      [] t.k = "signature" -> "func()"
      [] t.k = "interface" -> "interface{}"
      [] t.k = "struct" ->
            "struct{"
            \o ConcatStrings([i \in DOMAIN t.elems |->
                   (IF i > 1 THEN "; " ELSE "") \o "F" \o ToString(i) \o " "
                   \o TypeString(t.elems[i])])
            \o "}"
      [] OTHER -> "nil"

\* typeToASTExpr, printed: currentPkg is the path of the current package
\* ("": nil).
RECURSIVE typeToASTExpr(_, _)
typeToASTExpr(t, currentPkg) ==
    CASE t.k = "named" ->
            IF t.pkg = "" \/ currentPkg = "" \/ t.pkg = currentPkg THEN t.name
            ELSE pkgName(t.pkg) \o "." \o t.name
      [] t.k \in {"typeparam", "basic"} -> t.name
      [] t.k = "pointer" -> "*" \o typeToASTExpr(t.elems[1], currentPkg)
      [] t.k = "slice" -> "[]" \o typeToASTExpr(t.elems[1], currentPkg)
      [] t.k = "array" ->
            "[" \o ToString(t.len) \o "]" \o typeToASTExpr(t.elems[1], currentPkg)
      [] t.k = "map" ->
            "map[" \o typeToASTExpr(t.elems[1], currentPkg) \o "]"
            \o typeToASTExpr(t.elems[2], currentPkg)
      [] OTHER -> TypeString(t)

nilCheckExpr(varName) == varName \o " == nil"

isTypeParamComparable(tp) == tp.con # "" /\ Comparable(tp)

typeParamZeroCheckExpr(varName, tp) ==
    IF isTypeParamComparable(tp) THEN varName \o " == *new(" \o tp.name \o ")"
    ELSE "reflect.ValueOf(&" \o varName \o ").Elem().IsZero()"

\* The case *types.Basic of ZeroCheckExpr, with the complex types taken for
\* floats.
basicZeroAsFloat(varName, info) ==
    IF info = "string" THEN varName \o " == \"\""
    ELSE IF info = "integer" THEN varName \o " == 0"
    ELSE IF info \in {"float", "complex"} THEN varName \o " == 0.0"
    ELSE IF info = "boolean" THEN "!" \o varName
    ELSE nilCheckExpr(varName)

\* The case *types.Basic of ZeroCheckExpr.
basicZeroCheck(varName, info) ==
    IF info = "string" THEN varName \o " == \"\""
    ELSE IF info = "integer" THEN varName \o " == 0"
    ELSE IF info = "float" THEN varName \o " == 0.0"
    ELSE IF info = "complex" THEN varName \o " == 0"
    ELSE IF info = "boolean" THEN "!" \o varName
    ELSE nilCheckExpr(varName)

\* ZeroCheckExpr on a types.Type, printed.
zeroCheckOfType(varName, typ, currentPkg) ==
    IF typ.k = "nil" THEN nilCheckExpr(varName)
    ELSE IF typ.k = "typeparam" THEN typeParamZeroCheckExpr(varName, typ)
    ELSE IF Underlying(typ).k = "basic"
         THEN basicZeroCheck(varName, basicInfo(Underlying(typ).name))
    ELSE IF Underlying(typ).k \in {"struct", "array"} /\ Comparable(typ)
         THEN varName \o " == (" \o typeToASTExpr(typ, currentPkg) \o "{})"
    ELSE nilCheckExpr(varName)

\* NeedsImport: the import path the predicate needs ("": none).
NeedsImport(typ, currentPkg) ==
    IF typ.k = "nil" THEN ""
    ELSE IF typ.k = "typeparam" THEN (IF ~isTypeParamComparable(typ) THEN "reflect" ELSE "")
    ELSE IF currentPkg = "" THEN ""
    ELSE IF ~(Underlying(typ).k \in {"struct", "array"} /\ Comparable(typ)) THEN ""
    ELSE IF typ.k # "named" THEN ""
    ELSE IF typ.pkg = "" \/ typ.pkg = currentPkg THEN ""
    ELSE typ.pkg

\* The packages of the fixture: the current one and another one.
CurrentPkg == "app/main"

OtherPkg == "lib/other"

\* currentPkg of the calls: nil, the current package, and the other one.
ZeroPackages == {"", CurrentPkg, OtherPkg}

IntT == BasicType("int")

OtherT == NamedType(OtherPkg, "T", StructType(<<IntT>>))

\* The types the predicates are built for.
ZeroTypes ==
    {NilType,
     BasicType("string"), IntT, BasicType("uint8"), BasicType("float64"),
     BasicType("complex128"), BasicType("bool"), BasicType("unsafe.Pointer"),
     PointerType(IntT), PointerType(OtherT), SliceType(IntT), MapType(BasicType("string"), IntT),
     ChanType(IntT), SignatureType, InterfaceType,
     StructType(<<>>), StructType(<<IntT, BasicType("string")>>),
     StructType(<<SliceType(IntT)>>), StructType(<<OtherT>>),
     ArrayType(2, IntT), ArrayType(2, SliceType(IntT)), ArrayType(2, OtherT),
     ArrayType(3, PointerType(OtherT)), ArrayType(1, ChanType(IntT)),
     NamedType(CurrentPkg, "S", StructType(<<IntT>>)),
     NamedType(CurrentPkg, "W", StructType(<<OtherT>>)),
     NamedType(CurrentPkg, "Name", BasicType("string")),
     NamedType(CurrentPkg, "Ids", SliceType(IntT)),
     OtherT,
     NamedType(OtherPkg, "N", StructType(<<MapType(IntT, IntT)>>)),
     NamedType(OtherPkg, "A", ArrayType(4, IntT)),
     NamedType(OtherPkg, "P", PointerType(IntT)),
     NamedType(OtherPkg, "Flag", BasicType("bool")),
     NamedType("", "error", InterfaceType),
     TypeParam("T", "comparable"), TypeParam("U", "any"), TypeParam("V", "~[]int")}

InitZero ==
    /\ fs = [p \in {} |-> <<>>]
    /\ pc = "idle"
    /\ queue = <<>>
    /\ Replace = EmptyMap
    /\ err = ""
    /\ snap = fs
    /\ scanned = {}
    /\ passed = NothingPassed
    /\ hist = <<>>
    /\ nrun = 0
    /\ nedit = 0
    /\ loop \in {[at |-> "type", typ |-> t, pkg |-> p] : t \in ZeroTypes, p \in ZeroPackages}
    /\ exec = NoExec

\* generateNDChecks builds the predicate of a variable of the type ...
ZeroCheck ==
    /\ loop.at = "type"
    /\ loop' = [at |-> "checked", typ |-> loop.typ, pkg |-> loop.pkg,
                pred |-> zeroCheckOfType("v", loop.typ, loop.pkg)]
    /\ UNCHANGED <<fs, pc, queue, Replace, err, snap, scanned, passed, hist, nrun, nedit, exec>>

\* ... and then asks which import the predicate needs.
ImportOfCheck ==
    /\ loop.at = "checked"
    /\ loop' = [at |-> "imports", typ |-> loop.typ, pkg |-> loop.pkg, pred |-> loop.pred,
                imp |-> NeedsImport(loop.typ, loop.pkg)]
    /\ UNCHANGED <<fs, pc, queue, Replace, err, snap, scanned, passed, hist, nrun, nedit, exec>>

NextZero ==
    \/ ZeroCheck
    \/ ImportOfCheck

SpecZero == InitZero /\ [][NextZero]_vars

\* The package names a predicate refers to: the identifiers before a dot.
predicateRefs(pred) == pkgRefs(pred, 1)

\* The name under which the current package of a call is known ("": nil).
currentName(pkg) == IF pkg = "" THEN "" ELSE pkgName(pkg)

\* C25: whenever the predicate built by ZeroCheckExpr(v, T, P) refers to a
\* package other than P (reflect, or the qualifier of a named type anywhere
\* in a zero literal), NeedsImport(T, P) returns the import path of that
\* package, and NeedsImport returns "" when the predicate refers to no other
\* package.
C25_ImportMatchesPredicate ==
    loop.at = "imports" /\ loop.pkg # "" =>
        LET refs == predicateRefs(loop.pred) \ {currentName(loop.pkg)}
        IN  IF refs = {} THEN loop.imp = ""
            ELSE loop.imp # "" /\ pkgName(loop.imp) \in refs

\* C25 on the types that are named, basic or type parameters: the import is
\* the one the predicate needs.
C25_NamedTypesImported ==
    loop.at = "imports" /\ loop.pkg # "" /\ loop.typ.k \in {"named", "typeparam", "basic", "nil"} =>
        LET refs == predicateRefs(loop.pred) \ {currentName(loop.pkg)}
        IN  IF refs = {} THEN loop.imp = ""
            ELSE loop.imp # "" /\ pkgName(loop.imp) \in refs

\* The category of a type, as the kinds of Go: the type itself for a type
\* parameter, else the kind of its underlying type.
categoryOf(t) ==
    IF t.k \in {"nil", "typeparam"} THEN t.k
    ELSE IF Underlying(t).k = "basic" THEN basicInfo(Underlying(t).name)
    ELSE Underlying(t).k

\* The canonical defaulted-value predicate of a category ("": none stated).
canonicalZero(v, t, lit) ==
    CASE categoryOf(t) \in {"nil", "pointer", "slice", "map", "chan", "signature", "interface"}
            -> v \o " == nil"
      [] categoryOf(t) = "string" -> v \o " == \"\""
      [] categoryOf(t) \in {"integer", "complex"} -> v \o " == 0"
      [] categoryOf(t) = "float" -> v \o " == 0.0"
      [] categoryOf(t) = "boolean" -> "!" \o v
      [] categoryOf(t) \in {"struct", "array"} /\ Comparable(t) -> v \o " == (" \o lit \o "{})"
      [] categoryOf(t) = "typeparam" /\ t.con = "comparable" -> v \o " == *new(" \o t.name \o ")"
      [] categoryOf(t) = "typeparam" /\ t.con = "any" -> "reflect.ValueOf(&" \o v \o ").Elem().IsZero()"
      [] OTHER -> ""

\* C26: ZeroCheckExpr(v, T) is the canonical predicate of the category of T:
\* v == nil for pointers, slices, maps, channels, functions, interfaces and
\* the nil type, v == "" for strings, v == 0 for integers and complex
\* numbers, v == 0.0 for floats, !v for booleans, v == (T{}) for comparable
\* structs and arrays, v == *new(T) for a comparable type parameter and the
\* reflect call for an unconstrained one.
C26_CanonicalZeroCheck ==
    loop.at \in {"checked", "imports"} =>
        LET want == canonicalZero("v", loop.typ, typeToASTExpr(loop.typ, loop.pkg))
        IN  want # "" => loop.pred = want

\* A complex number has been given its predicate; so have a named struct of
\* another package and an unconstrained type parameter.
C26_Witness ==
    /\ loop.at = "checked"
    /\ \/ loop.typ = BasicType("complex128") /\ loop.pred = "v == 0"
       \/ loop.typ = OtherT /\ loop.pkg = CurrentPkg /\ loop.pred = "v == (other.T{})"
       \/ loop.typ = TypeParam("U", "any")

(***************************************************************************)
(* engine.go: scanPackages on trees under roots of several names.          *)
(***************************************************************************)
\* The absolute roots runGen may hand to NewEngine.
WalkRoots == {"/r", "/w/app", "/w/vendor", "/w/testdata", "/w/.app"}

\* The files of a tree, relative to its root.
WalkFiles ==
    {"a.go", "a_test.go", "notes.txt", "vendor.go", "p/a.go", "p/q/b.go", "vendor/v.go",
     "p/testdata/t.go", ".git/h.go", "p/.x/y.go", "p/vendors/c.go", "testdata.d/e.go"}

WalkTrees == {t \in SUBSET WalkFiles : Cardinality(t) \in {1, 2}}

InitWalk ==
    /\ fs = [p \in {} |-> <<>>]
    /\ pc = "idle"
    /\ queue = <<>>
    /\ Replace = EmptyMap
    /\ err = ""
    /\ snap = fs
    /\ scanned = {}
    /\ passed = NothingPassed
    /\ hist = <<>>
    /\ nrun = 0
    /\ nedit = 0
    /\ loop \in {[at |-> "tree", root |-> r, files |-> t] : r \in WalkRoots, t \in WalkTrees}
    /\ exec = NoExec

\* scanPackages: the walk from the root, and the files it parses.
ScanTree ==
    /\ loop.at = "tree"
    /\ loop' = [at |-> "scanned", root |-> loop.root, files |-> loop.files,
                selected |-> {p \in loop.files : walks(loop.root, loop.root \o "/" \o p)}]
    /\ UNCHANGED <<fs, pc, queue, Replace, err, snap, scanned, passed, hist, nrun, nedit, exec>>

NextWalk == ScanTree

SpecWalk == InitWalk /\ [][NextWalk]_vars

\* The names of the directories strictly below the root on the way to the
\* file with the relative path p.
dirsBelow(p) == SubSeq(Split(p, "/"), 1, Len(Split(p, "/")) - 1)

\* What the walk is to select: a .go file that is no test file, under no
\* hidden, vendor or testdata directory below the root.
selectable(p) ==
    /\ HasSuffix(Base(p), ".go") /\ ~HasSuffix(Base(p), "_test.go")
    /\ \A k \in DOMAIN dirsBelow(p) :
          ~(HasPrefix(dirsBelow(p)[k], ".") \/ dirsBelow(p)[k] \in {"vendor", "testdata"})

\* C27: scanPackages selects a file if and only if its name ends in .go and
\* not in _test.go and no directory strictly below the root on the way to it
\* begins with a dot or is named vendor or testdata, whatever the name of the
\* root directory itself.
C27_SelectsSourceFiles ==
    loop.at = "scanned" => loop.selected = {p \in loop.files : selectable(p)}

\* C27 for roots whose own name is not hidden, vendor or testdata.
C27_SelectsUnderPlainRoot ==
    loop.at = "scanned" /\ descends(<<Base(loop.root)>>) =>
        loop.selected = {p \in loop.files : selectable(p)}

(***************************************************************************)
(* The Auditor: auditFile, auditFunc and countErrorAssignments on a file   *)
(* of two functions.                                                       *)
(***************************************************************************)
AuditForms == {"assign", "assignmust", "must", "plain", "single", "require"}

auditLine(form) ==
    CASE form = "assign" -> "\tv, _ := h()"
      [] form = "assignmust" -> "\tv, _ := h() // @must"
      [] form = "must" -> "\t// @must"
      [] form = "single" -> "\t_ = h()"
      [] form = "require" -> "\t// @require v > 0"
      [] OTHER -> "\tg(v)"

auditText(f1, f2, g1, g2) ==
    <<"package main", "", "func F(v int) {", auditLine(f1), auditLine(f2), "}", "",
      "func G(v int) {", auditLine(g1), auditLine(g2), "}">>

AuditTexts == {auditText(f1, f2, g1, g2) : f1, f2, g1, g2 \in AuditForms}

\* auditFile: the directives of the comments of the file, with their lines.
auditDirectives(comments) ==
    Flatten([k \in 1..Len(comments) |->
        The({IF d.Kind = "nil" THEN <<>>
             ELSE <<[d |-> d, line |-> comments[k].line, text |-> comments[k].text]>> :
             d \in {ParseDirective(comments[k].text)}})])

\* The function declarations of the file: the name, the line of the opening
\* brace and the line of the closing one.
funcClose(code, n) == CHOOSE m \in n + 1..Len(code) :
                          code[m] = "}" /\ \A j \in n + 1..m - 1 : code[j] # "}"

funcDecls(code) ==
    Flatten([n \in 1..Len(code) |->
        IF HasPrefix(code[n], "func ")
        THEN <<[Name |-> SubSeq(code[n], Len("func ") + 1, Index(code[n], "(") - 1),
                Line |-> n, Rbrace |-> funcClose(code, n)]>>
        ELSE <<>>])

\* The left-hand sides of an assignment statement (none for other code).
assignLhs(code) ==
    IF assignAt(code) = 0 THEN <<>>
    ELSE The({[k \in 1..Len(parts) |-> TrimSpace(parts[k])] :
              parts \in {Split(SubSeq(code, 1, assignAt(code) - 1), ",")}})

\* The assignments countErrorAssignments counts: a blank on the left and
\* at least two left-hand sides.
discardsError(code) ==
    /\ \E k \in DOMAIN assignLhs(code) : assignLhs(code)[k] = "_"
    /\ Len(assignLhs(code)) >= 2

\* Whether the directive cd guards the assignment on assignLine.
guards(cd, assignLine, taken) ==
    /\ cd.d.Kind = "must" /\ cd.line \notin taken
    /\ \/ cd.line = assignLine
       \/ cd.line < assignLine /\ cd.line >= assignLine - 5

\* The first directive of allDirectives that guards the assignment (0: none).
guardOf(allDirectives, assignLine, taken) ==
    IF \E k \in DOMAIN allDirectives : guards(allDirectives[k], assignLine, taken)
    THEN CHOOSE k \in DOMAIN allDirectives :
            /\ guards(allDirectives[k], assignLine, taken)
            /\ \A j \in 1..k - 1 : ~guards(allDirectives[j], assignLine, taken)
    ELSE 0

\* The counters after the assignment guarded by directive k (0: unguarded).
counted(acc, allDirectives, k) ==
    [ErrorAssignments |-> acc.ErrorAssignments + 1,
     GuardedAssignments |-> acc.GuardedAssignments + (IF k > 0 THEN 1 ELSE 0),
     consumed |-> IF k > 0 THEN acc.consumed \cup {allDirectives[k].line} ELSE acc.consumed]

\* countErrorAssignments on the statements of lines n..last of the body.
RECURSIVE countErrorAssignments(_, _, _, _, _)
countErrorAssignments(code, n, last, allDirectives, acc) ==
    IF n > last THEN acc
    ELSE IF ~discardsError(code[n])
         THEN countErrorAssignments(code, n + 1, last, allDirectives, acc)
    ELSE countErrorAssignments(code, n + 1, last, allDirectives,
             counted(acc, allDirectives, guardOf(allDirectives, n, acc.consumed)))

\* auditFunc on the declaration fn.
auditFunc(fn, code, allDirectives) ==
    The({[Name |-> fn.Name, Line |-> fn.Line,
          Directives |-> SelectSeq(allDirectives,
                             LAMBDA cd : cd.line > fn.Line /\ cd.line < fn.Rbrace),
          ErrorAssignments |-> acc.ErrorAssignments,
          GuardedAssignments |-> acc.GuardedAssignments] :
         acc \in {countErrorAssignments(code, fn.Line + 1, fn.Rbrace - 1, allDirectives,
                      [ErrorAssignments |-> 0, GuardedAssignments |-> 0, consumed |-> {}])}})

AuditPath == "/r/a.go"

InitAudit ==
    /\ fs \in {[p \in {AuditPath} |-> t] : t \in AuditTexts}
    /\ pc = "idle"
    /\ queue = <<>>
    /\ Replace = EmptyMap
    /\ err = ""
    /\ snap = fs
    /\ scanned = {}
    /\ passed = NothingPassed
    /\ hist = <<>>
    /\ nrun = 0
    /\ nedit = 0
    /\ loop = [at |-> "file"]
    /\ exec = NoExec

\* auditFile up to the walk of the declarations: the file is parsed and
\* its directives are collected.
AuditFile ==
    /\ loop.at = "file"
    /\ loop' = [at |-> "funcs",
                allDirectives |-> auditDirectives(fileComments(fs[AuditPath])),
                decls |-> funcDecls(fileCode(fs[AuditPath])),
                Functions |-> <<>>]
    /\ UNCHANGED <<fs, pc, queue, Replace, err, snap, scanned, passed, hist, nrun, nedit, exec>>

\* The walk reaches the next declaration: auditFunc, and its result is
\* appended.
AuditFunc ==
    /\ loop.at = "funcs"
    /\ Len(loop.Functions) < Len(loop.decls)
    /\ loop' = [loop EXCEPT !.Functions =
                   Append(@, auditFunc(loop.decls[Len(loop.Functions) + 1],
                                       fileCode(fs[AuditPath]), loop.allDirectives))]
    /\ UNCHANGED <<fs, pc, queue, Replace, err, snap, scanned, passed, hist, nrun, nedit, exec>>

\* auditFile returns the audit of the file.
AuditReturn ==
    /\ loop.at = "funcs"
    /\ Len(loop.Functions) = Len(loop.decls)
    /\ loop' = [loop EXCEPT !.at = "audited"]
    /\ UNCHANGED <<fs, pc, queue, Replace, err, snap, scanned, passed, hist, nrun, nedit, exec>>

NextAudit ==
    \/ AuditFile
    \/ AuditFunc
    \/ AuditReturn

SpecAudit == InitAudit /\ [][NextAudit]_vars

\* The sum of GuardedAssignments over the audits of functions.
RECURSIVE guardedTotal(_)
guardedTotal(functions) ==
    IF functions = <<>> THEN 0
    ELSE functions[1].GuardedAssignments + guardedTotal(Tail(functions))

\* The number of @must directives of the file.
mustCount(allDirectives) ==
    Cardinality({k \in DOMAIN allDirectives : allDirectives[k].d.Kind = "must"})

\* C28: each @must directive guards at most one discarding assignment in the
\* whole report: the sum of GuardedAssignments over the functions of a file
\* never exceeds the number of @must directives of the file.
C28_MustGuardsOnce ==
    loop.at \in {"funcs", "audited"} =>
        guardedTotal(loop.Functions) <= mustCount(loop.allDirectives)

\* C28 for one function: its GuardedAssignments never exceeds the number of
\* @must directives of the file.
C28_MustGuardsOncePerFunction ==
    loop.at \in {"funcs", "audited"} =>
        \A k \in DOMAIN loop.Functions :
            loop.Functions[k].GuardedAssignments <= mustCount(loop.allDirectives)

(***************************************************************************)
(* typecheck.go: injectLineDirectives followed turn by turn of its loop.   *)
(***************************************************************************)
SyncPath == "/r/a.go"

\* The lines an original file is made of, and those of a shadow.
SyncOrigLines == {"a()", "\tb()", "// @require x > 0", "//line /r/a.go:2"}

SyncShadowLines == {"a()", "b()", "if !(x > 0) {", "//line /r/a.go:2"}

SeqsUpTo3(S) == UNION {[1..n -> S] : n \in 1..3}

InitSync ==
    /\ fs = [p \in {} |-> <<>>]
    /\ pc = "idle"
    /\ queue = <<>>
    /\ Replace = EmptyMap
    /\ err = ""
    /\ snap = fs
    /\ scanned = {}
    /\ passed = NothingPassed
    /\ hist = <<>>
    /\ nrun = 0
    /\ nedit = 0
    /\ loop \in {[at |-> "scan", shadowLines |-> s, origLines |-> o, k |-> 1, origIdx |-> 1,
                  needsLineDirective |-> FALSE, result |-> <<>>] :
                 s \in SeqsUpTo3(SyncShadowLines), o \in SeqsUpTo3(SyncOrigLines)}
    /\ exec = NoExec

\* One turn of the loop over the shadow lines.
SyncTurn ==
    /\ loop.at = "scan" /\ loop.k <= Len(loop.shadowLines)
    /\ \E t \in {lineTurn(loop.shadowLines[loop.k], loop.origLines, loop.origIdx,
                          loop.needsLineDirective, SyncPath,
                          IF loop.origIdx > Len(loop.origLines) THEN loop.origIdx
                          ELSE skipContract(loop.origLines, loop.origIdx))} :
         loop' = [loop EXCEPT !.k = @ + 1, !.origIdx = t.origIdx,
                              !.needsLineDirective = t.needs, !.result = @ \o t.out]
    /\ UNCHANGED <<fs, pc, queue, Replace, err, snap, scanned, passed, hist, nrun, nedit, exec>>

\* The loop is over: the result is joined and returned.
SyncReturn ==
    /\ loop.at = "scan" /\ loop.k > Len(loop.shadowLines)
    /\ loop' = [loop EXCEPT !.at = "joined"]
    /\ UNCHANGED <<fs, pc, queue, Replace, err, snap, scanned, passed, hist, nrun, nedit, exec>>

NextSync ==
    \/ SyncTurn
    \/ SyncReturn

SpecSync == InitSync /\ [][NextSync]_vars

\* Whether result is shadow with //line lines of the path inserted: deleting
\* some lines of that form from result leaves shadow.
RECURSIVE onlyInserted(_, _)
onlyInserted(result, shadow) ==
    IF result = <<>> THEN shadow = <<>>
    ELSE \/ shadow # <<>> /\ result[1] = shadow[1] /\ onlyInserted(Tail(result), Tail(shadow))
         \/ /\ HasPrefix(result[1], "//line " \o SyncPath \o ":")
            /\ onlyInserted(Tail(result), shadow)

\* C30: injectLineDirectives only inserts lines: without the //line lines it
\* inserted the result is the input shadow, line by line; during the scan
\* the original-line index never decreases and never exceeds the number of
\* original lines.
C30_OnlyInsertsLines ==
    /\ [](loop.at \in {"scan", "joined"} =>
            /\ onlyInserted(loop.result, SubSeq(loop.shadowLines, 1, loop.k - 1))
            /\ loop.origIdx - 1 <= Len(loop.origLines))
    /\ [][loop.at = "scan" => loop'.origIdx >= loop.origIdx]_vars

\* A contract comment of the original was skipped, the line after the
\* injected one matched, and a //line comment was inserted before it.
C30_Witness ==
    /\ loop.at = "joined"
    /\ loop.origLines = <<"// @require x > 0", "a()">>
    /\ loop.shadowLines = <<"if !(x > 0) {", "a()">>
    /\ loop.result = <<"if !(x > 0) {", "//line /r/a.go:2", "a()">>
    /\ loop.origIdx = 3
=============================================================================
